---- MODULE Spec2Model ----
(***************************************************************************)
(* A model of the radar scope pane of vice (radarscope.go): the per-pane   *)
(* store of AircraftScopeState records and its ghost links, the datablock  *)
(* layout pass, and the range-indicator / miles-in-trail pass.             *)
(*                                                                         *)
(* Window coordinates and offsets are float32 in the program.  Here they   *)
(* are fixed-point integers: one pixel is Scale units, and square roots    *)
(* and quotients are truncated to a unit.                                  *)
(***************************************************************************)
EXTENDS Integers, Sequences, FiniteSets, TLC

(***************************************************************************)
(* Bounds of the model.                                                    *)
(***************************************************************************)
\* longest queue of undelivered events of the pane's event subscription
MaxEvents == 2
\* fixed-point units per pixel
Scale == 10

\* most layout passes in one behaviour of the layout specification
MaxLayoutRuns == 2
\* the last second the clock of the alert specification reaches
MaxClock == 8
\* fixed-point units per nautical mile
NmUnits == 10
\* the farthest a drag takes a datablock from its track, in pixels per axis
MaxDragOffset == 30
\* most frames in one behaviour of the offsets specification
MaxFrames == 2
MaxAttractPasses == 200
\* ctx.paneExtent, in pixels
PaneWidth == 200
PaneHeight == 200
\* the size BoundText gives a datablock's text, in pixels
TextWidth == 20
TextHeight == 10

(***************************************************************************)
(* Constants of the program.                                               *)
(***************************************************************************)
MinAltitude == 0
MaxAltitude == 60000
\* layoutDatablocks
DatablockPadding == 5
EdgeSlop == 3
OnScreenMargin == 100
RelaxIterations == 20
IterScale == 2
MaxForce == 32
AttractMinLength == 1
\* drawRangeIndicators: seconds between two conflict alerts
AlertCooldown == 3
\* drawMIT: nm, degrees and feet
MITMaxDistance == 20
MITMaxHeadingDifference == 150
MITMaxAltitudeDifference == 3000
MITSafeDistance == 5
MITCautionDistance == 3

\* the aircraft the server may know in the store specification
StoreAircraft == {1, 2}
\* identities a ghost (a fresh *Aircraft made by GetGhost) may take
GhostIds == {11, 12, 13}
\* the nil *Aircraft
Nil == 0

VARIABLES
    \* the server and the event stream
    server,             \* server.GetAllAircraft()
    ghostable,          \* the aircraft for which CRDAConfig.GetGhost is not nil
    events,             \* es.Get(rs.eventsId): events posted and not yet drained
    \* RadarScopePane fields
    CRDAEnabled,
    aircraft,           \* rs.aircraft: *Aircraft -> *AircraftScopeState
    ghostAircraft,      \* rs.ghostAircraft: *Aircraft -> *Aircraft
    pointedOutAircraft, \* rs.pointedOutAircraft
    \* what the last processEvents did: for every RemovedAircraftEvent it applied,
    \* the aircraft and the ghost linked to it when the event was applied (or Nil)
    removedInFrame

storeVars == <<server, ghostable, events, CRDAEnabled, aircraft, ghostAircraft,
               pointedOutAircraft, removedInFrame>>

VARIABLES
    \* the frame's snapshot: for every aircraft its window position
    \* (windowFromLatLongP(ac.Position())), Heading(), Altitude() and LostTrack(now)
    info,
    RotationAngle,
    AutomaticDatablockLayout,
    \* the locals of the last layoutDatablocks when it returned: its mode, the sorted
    \* aircraft slice, placed, datablockBounds, and the aircraft the second pass placed
    placement,
    layoutRuns          \* layout passes so far

layoutVars == <<info, RotationAngle, AutomaticDatablockLayout, placement, layoutRuns>>

VARIABLES
    clock,                       \* time.Now(), in seconds
    DrawRangeIndicators,
    rangeWarnings,               \* rs.rangeWarnings: a set of AircraftPair
    lastRangeNotificationPlayed,
    AutoMIT,
    AutoMITAirports,
    mit,                         \* positionConfig.mit
    \* what the last Draw produced, while what it read still stands: the lists
    \* GetConflicts returned, the calls of HandleEvent, and the lines of drawMIT
    frame,
    alerts                       \* the times of the calls of HandleEvent so far

rangeVars == <<clock, DrawRangeIndicators, rangeWarnings, lastRangeNotificationPlayed,
               AutoMIT, AutoMITAirports, mit, frame, alerts>>

VARIABLES
    \* the pane Duplicate returned, if it has been called: its maps, its event
    \* subscription, and which of its maps are the very maps of the first pane
    dupe,
    lastPane,                    \* the pane whose code ran last
    passes                       \* the store each pass of the last Draw was given

dupeVars == <<dupe, lastPane, passes>>

vars == <<storeVars, layoutVars, rangeVars, dupeVars>>

(***************************************************************************)
(* Maps.                                                                   *)
(***************************************************************************)
EmptyMap == [x \in {} |-> Nil]

MapPut(f, k, v) == [x \in DOMAIN f \cup {k} |-> IF x = k THEN v ELSE f[x]]

MapDelete(f, k) == [x \in DOMAIN f \ {k} |-> f[x]]

\* the map f, key by key
SameMap(f) == [x \in DOMAIN f |-> f[x]]

Range(f) == {f[x] : x \in DOMAIN f}

SetMin(S) == CHOOSE x \in S : \A y \in S : x <= y

(***************************************************************************)
(* AircraftScopeState and Extent2D.                                        *)
(***************************************************************************)
Extent2D(p0, p1) == [p0 |-> p0, p1 |-> p1]

\* &AircraftScopeState{isGhost: g}: every other field has its zero value
NewAircraftScopeState(g) ==
    [isGhost |-> g,
     datablockAutomaticOffset |-> <<0, 0>>,
     datablockManualOffset |-> <<0, 0>>,
     datablockText |-> <<0, 0>>,
     datablockTextCurrent |-> FALSE,
     datablockBounds |-> Extent2D(<<0, 0>>, <<0, 0>>)]

(***************************************************************************)
(* float32 arithmetic on [2]float32 and Extent2D, in fixed point.          *)
(***************************************************************************)
\* a quotient truncated towards zero
Quot(a, b) == IF a >= 0 THEN a \div b ELSE -((-a) \div b)

RECURSIVE SqrtIter(_, _)
SqrtIter(n, x) ==
    LET y == (x + n \div x) \div 2 IN IF y >= x THEN x ELSE SqrtIter(n, y)

\* the square root, truncated: Newton's iteration from a value above the root
sqrt(n) ==
    IF n < 2 THEN n
    ELSE IF n <= 10000 THEN SqrtIter(n, 100)
    ELSE IF n <= 1000000 THEN SqrtIter(n, 1000)
    ELSE SqrtIter(n, 46340)

\* a length in pixels, in units
Px(n) == n * Scale

add2f(a, b) == <<a[1] + b[1], a[2] + b[2]>>

sub2f(a, b) == <<a[1] - b[1], a[2] - b[2]>>

\* scale2f by a whole number
scale2f(a, s) == <<a[1] * s, a[2] * s>>

length2f(v) == sqrt(v[1] * v[1] + v[2] * v[2])

\* a vector of length one pixel along v; the zero vector for the zero vector
normalize2f(v) ==
    LET l == length2f(v)
    IN  IF l = 0 THEN <<0, 0>> ELSE <<Quot(v[1] * Scale, l), Quot(v[2] * Scale, l)>>

IsZero2f(v) == v[1] = 0 /\ v[2] = 0

Offset(e, p) == Extent2D(add2f(e.p0, p), add2f(e.p1, p))

Expand(e, d) == Extent2D(<<e.p0[1] - d, e.p0[2] - d>>, <<e.p1[1] + d, e.p1[2] + d>>)

Center(e) == <<Quot(e.p0[1] + e.p1[1], 2), Quot(e.p0[2] + e.p1[2], 2)>>

\* boxes that share an edge or a corner overlap
Overlaps(a, b) ==
    /\ a.p1[1] >= b.p0[1] /\ a.p0[1] <= b.p1[1]
    /\ a.p1[2] >= b.p0[2] /\ a.p0[2] <= b.p1[2]

(***************************************************************************)
(* Ghosts.  GetGhost returns nil or a pointer to a fresh Aircraft: one no  *)
(* map of the pane refers to.                                              *)
(***************************************************************************)
FreeGhosts(ac, gh) == {g \in GhostIds : g \notin DOMAIN ac /\ g \notin Range(gh)}

GetGhost(a, able, ac, gh) ==
    IF a \in able /\ FreeGhosts(ac, gh) # {} THEN SetMin(FreeGhosts(ac, gh)) ELSE Nil

\* the model has an identity left for the ghost GetGhost would make
GhostAvailable(a, able, ac, gh) == a \in able => FreeGhosts(ac, gh) # {}

\* the store of a pane as processEvents and initializeAircraft see it
Store(ac, gh, po, ok) ==
    [aircraft |-> ac, ghostAircraft |-> gh, pointedOutAircraft |-> po, ok |-> ok]

\* rs.ghostAircraft[a] = ghost; rs.aircraft[ghost] = &AircraftScopeState{isGhost: true}
AddGhost(st, a, crda, able) ==
    IF ~crda THEN st
    ELSE LET g == GetGhost(a, able, st.aircraft, st.ghostAircraft)
         IN  IF g = Nil
             THEN [st EXCEPT !.ok = st.ok /\ GhostAvailable(a, able, st.aircraft,
                                                            st.ghostAircraft)]
             ELSE [st EXCEPT !.ghostAircraft = MapPut(st.ghostAircraft, a, g),
                             !.aircraft = MapPut(st.aircraft, g,
                                                 NewAircraftScopeState(TRUE))]

RECURSIVE InitializeFrom(_, _, _, _)
InitializeFrom(st, todo, crda, able) ==
    IF todo = {} THEN st
    ELSE LET a == SetMin(todo)
             s1 == [st EXCEPT !.aircraft = MapPut(st.aircraft, a,
                                                  NewAircraftScopeState(FALSE))]
         IN  InitializeFrom(AddGhost(s1, a, crda, able), todo \ {a}, crda, able)

\* initializeAircraft: both maps are made anew from the server's aircraft
initializeAircraftStore(po, all, crda, able) ==
    InitializeFrom(Store(EmptyMap, EmptyMap, po, TRUE), all, crda, able)

(***************************************************************************)
(* Events.                                                                 *)
(***************************************************************************)
Event(t, a) == [type |-> t, ac |-> a]

AddedAircraftEvent(st, a, crda, able) ==
    AddGhost([st EXCEPT !.aircraft = MapPut(st.aircraft, a, NewAircraftScopeState(FALSE))],
             a, crda, able)

\* the ghost is looked up after the link is deleted, so its state is left behind
RemovedAircraftEventKeepsGhost(st, a) ==
    [st EXCEPT !.aircraft = MapDelete(st.aircraft, a),
               !.ghostAircraft = MapDelete(st.ghostAircraft, a)]

RemovedAircraftEvent(st, a) ==
    LET ac1 == IF a \in DOMAIN st.ghostAircraft
               THEN MapDelete(st.aircraft, st.ghostAircraft[a])
               ELSE st.aircraft
    IN  [st EXCEPT !.aircraft = MapDelete(ac1, a),
                   !.ghostAircraft = MapDelete(st.ghostAircraft, a)]

ModifiedAircraftEvent(st, a, crda, able) ==
    LET s1 == IF crda /\ a \in DOMAIN st.ghostAircraft
              THEN [st EXCEPT !.aircraft = MapDelete(st.aircraft, st.ghostAircraft[a]),
                              !.ghostAircraft = MapDelete(st.ghostAircraft, a)]
              ELSE st
        s2 == IF a \notin DOMAIN s1.aircraft
              THEN [s1 EXCEPT !.aircraft = MapPut(s1.aircraft, a,
                                                  NewAircraftScopeState(FALSE))]
              ELSE [s1 EXCEPT !.aircraft[a].datablockTextCurrent = FALSE]
    IN  AddGhost(s2, a, crda, able)

PointOutEvent(st, a) ==
    [st EXCEPT !.pointedOutAircraft = st.pointedOutAircraft \cup {a}]

\* one turn of the loop of processEvents
ApplyEvent(st, ev, crda, able) ==
    CASE ev.type = "Added"    -> AddedAircraftEvent(st, ev.ac, crda, able)
      [] ev.type = "Removed"  -> RemovedAircraftEvent(st, ev.ac)
      [] ev.type = "Modified" -> ModifiedAircraftEvent(st, ev.ac, crda, able)
      [] ev.type = "PointOut" -> PointOutEvent(st, ev.ac)

\* the store after the first n events of evs
RECURSIVE ApplyEvents(_, _, _, _, _)
ApplyEvents(st, evs, n, crda, able) ==
    IF n = 0 THEN st
    ELSE ApplyEvent(ApplyEvents(st, evs, n - 1, crda, able), evs[n], crda, able)

PaneStore == Store(aircraft, ghostAircraft, pointedOutAircraft, TRUE)

\* the ghost linked to a in the store st, or Nil
GhostOf(st, a) == IF a \in DOMAIN st.ghostAircraft THEN st.ghostAircraft[a] ELSE Nil

\* the removals among evs, each with the ghost linked when it was applied
RemovalsOf(st, evs, crda, able) ==
    {<<evs[i].ac, GhostOf(ApplyEvents(st, evs, i - 1, crda, able), evs[i].ac)>> :
        i \in {j \in 1..Len(evs) : evs[j].type = "Removed"}}

(***************************************************************************)
(* The server: it posts an event for every change it makes.                *)
(***************************************************************************)
\* eventStream.Post: every subscription gets the event
CanPost == Len(events) < MaxEvents /\ Len(dupe.events) < MaxEvents

Post(ev) ==
    /\ events' = Append(events, ev)
    /\ dupe' = IF dupe.made THEN [dupe EXCEPT !.events = Append(@, ev)] ELSE dupe

ServerAddAircraft(a) ==
    /\ a \notin server
    /\ CanPost
    /\ server' = server \cup {a}
    /\ Post(Event("Added", a))
    /\ UNCHANGED <<ghostable, CRDAEnabled, aircraft, ghostAircraft, pointedOutAircraft,
                   removedInFrame, layoutVars, rangeVars, lastPane, passes>>

ServerRemoveAircraft(a) ==
    /\ a \in server
    /\ CanPost
    /\ server' = server \ {a}
    /\ Post(Event("Removed", a))
    /\ UNCHANGED <<ghostable, CRDAEnabled, aircraft, ghostAircraft, pointedOutAircraft,
                   removedInFrame, layoutVars, rangeVars, lastPane, passes>>

\* a position or flight plan update; it may move the aircraft into or out of
\* the region in which GetGhost makes a ghost for it
ServerModifyAircraft(a, g) ==
    /\ a \in server
    /\ CanPost
    /\ ghostable' = IF g THEN ghostable \cup {a} ELSE ghostable \ {a}
    /\ Post(Event("Modified", a))
    /\ UNCHANGED <<server, CRDAEnabled, aircraft, ghostAircraft, pointedOutAircraft,
                   removedInFrame, layoutVars, rangeVars, lastPane, passes>>

ServerPointOut(a) ==
    /\ a \in server
    /\ CanPost
    /\ Post(Event("PointOut", a))
    /\ UNCHANGED <<server, ghostable, CRDAEnabled, aircraft, ghostAircraft,
                   pointedOutAircraft, removedInFrame, layoutVars, rangeVars, lastPane, passes>>

(***************************************************************************)
(* The pane.                                                               *)
(***************************************************************************)
\* processEvents: every pending event, in the order of delivery
processEvents ==
    LET st == ApplyEvents(PaneStore, events, Len(events), CRDAEnabled, ghostable)
    IN  /\ events # <<>>
        /\ st.ok
        /\ aircraft' = st.aircraft
        /\ ghostAircraft' = st.ghostAircraft
        /\ pointedOutAircraft' = st.pointedOutAircraft
        /\ events' = <<>>
        /\ removedInFrame' = RemovalsOf(PaneStore, events, CRDAEnabled, ghostable)
        /\ UNCHANGED <<server, ghostable, CRDAEnabled, layoutVars, rangeVars, dupeVars>>

\* initializeAircraft, as DrawUI calls it when an altitude bound is edited
initializeAircraft ==
    LET st == initializeAircraftStore(pointedOutAircraft, server, CRDAEnabled, ghostable)
    IN  /\ st.ok
        /\ aircraft' = st.aircraft
        /\ ghostAircraft' = st.ghostAircraft
        /\ UNCHANGED <<server, ghostable, events, CRDAEnabled, pointedOutAircraft,
                       removedInFrame, layoutVars, rangeVars, dupeVars>>

\* DrawUI: the CRDA checkbox, which calls initializeAircraft
SetCRDAEnabled ==
    LET st == initializeAircraftStore(pointedOutAircraft, server, ~CRDAEnabled, ghostable)
    IN  /\ st.ok
        /\ CRDAEnabled' = ~CRDAEnabled
        /\ aircraft' = st.aircraft
        /\ ghostAircraft' = st.ghostAircraft
        /\ UNCHANGED <<server, ghostable, events, pointedOutAircraft, removedInFrame,
                       layoutVars, rangeVars, dupeVars>>

\* NewRadarScopePane and Activate: the maps hold the server's aircraft
\* no layout pass has run
NoPlacement ==
    [mode |-> "none", aircraft |-> <<>>, placed |-> <<>>, datablockBounds |-> <<>>,
     ideal |-> {}, resorted |-> FALSE, relaxIterations |-> 0, attractPasses |-> 0]

LayoutIdle ==
    /\ info = EmptyMap
    /\ RotationAngle = 0
    /\ AutomaticDatablockLayout = FALSE
    /\ placement = NoPlacement
    /\ layoutRuns = 0

\* no frame has been drawn since what a frame reads last changed
NoFrame ==
    [drawn |-> FALSE, classified |-> FALSE, warnings |-> <<>>, violations |-> <<>>,
     alerts |-> 0, arrivals |-> <<>>, closest |-> EmptyMap, mitLines |-> <<>>]

\* the zero time.Time lies further back than any time the clock shows
ZeroTime == -(MaxClock + AlertCooldown + 1)

\* Duplicate has not been called
NoDupe ==
    [made |-> FALSE, shared |-> {}, aircraft |-> EmptyMap, ghostAircraft |-> EmptyMap,
     rangeWarnings |-> {}, AutoMITAirports |-> {}, pointedOutAircraft |-> {},
     events |-> <<>>, lastRangeNotificationPlayed |-> ZeroTime]

NoPasses == [text |-> EmptyMap, layout |-> EmptyMap, range |-> EmptyMap]

DupeIdle ==
    /\ dupe = NoDupe
    /\ lastPane = "none"
    /\ passes = NoPasses

RangeIdle ==
    /\ clock = 0
    /\ DrawRangeIndicators = FALSE
    /\ rangeWarnings = {}
    /\ lastRangeNotificationPlayed = ZeroTime
    /\ AutoMIT = FALSE
    /\ AutoMITAirports = {}
    /\ mit = <<>>
    /\ frame = NoFrame
    /\ alerts = <<>>

StoreInit ==
    /\ LayoutIdle
    /\ RangeIdle
    /\ DupeIdle
    /\ server \in SUBSET StoreAircraft
    /\ ghostable \in SUBSET StoreAircraft
    /\ CRDAEnabled \in BOOLEAN
    /\ events = <<>>
    /\ pointedOutAircraft = {}
    /\ removedInFrame = {}
    /\ aircraft = initializeAircraftStore({}, server, CRDAEnabled, ghostable).aircraft
    /\ ghostAircraft = initializeAircraftStore({}, server, CRDAEnabled, ghostable).ghostAircraft

StoreNext ==
    \/ \E a \in StoreAircraft : ServerAddAircraft(a)
    \/ \E a \in StoreAircraft : ServerRemoveAircraft(a)
    \/ \E a \in StoreAircraft, g \in BOOLEAN : ServerModifyAircraft(a, g)
    \/ \E a \in StoreAircraft : ServerPointOut(a)
    \/ processEvents
    \/ initializeAircraft
    \/ SetCRDAEnabled

SpecStore == StoreInit /\ [][StoreNext]_vars

(***************************************************************************)
(* Claims about the store.                                                 *)
(***************************************************************************)
\* the tracked sources whose ghost link is g
SourcesOf(g) ==
    {s \in DOMAIN ghostAircraft :
        s \in DOMAIN aircraft /\ ~aircraft[s].isGhost /\ ghostAircraft[s] = g}

\* C3: every ScopeState of the store with isGhost set is the ghost link of exactly
\* one tracked source aircraft: no ghost state is orphaned, none is shared.
GhostsHaveExactlyOneSource ==
    \A g \in DOMAIN aircraft : aircraft[g].isGhost => Cardinality(SourcesOf(g)) = 1

\* C4: when processEvents applies a RemovedAircraftEvent for a source, the store
\* right after that event (the store the frame goes on with, when the event is the
\* last of the batch) holds no state for the source, none for the ghost that was
\* linked to it, and no ghost link for the source.
RemoveDestroysSourceAndGhost ==
    [][processEvents =>
        \A i \in 1..Len(events) :
            events[i].type = "Removed" =>
                LET a == events[i].ac
                    before == ApplyEvents(PaneStore, events, i - 1, CRDAEnabled, ghostable)
                    after == IF i = Len(events)
                             THEN Store(aircraft', ghostAircraft', pointedOutAircraft', TRUE)
                             ELSE ApplyEvents(PaneStore, events, i, CRDAEnabled, ghostable)
                IN  /\ a \notin DOMAIN after.aircraft
                    /\ a \notin DOMAIN after.ghostAircraft
                    /\ GhostOf(before, a) \notin DOMAIN after.aircraft]_vars

\* a frame has removed a source that had a ghost, and both states are gone
RemovedSourceWithGhost ==
    \E r \in removedInFrame :
        /\ r[2] # Nil
        /\ r[1] \notin DOMAIN aircraft
        /\ r[2] \notin DOMAIN aircraft
        /\ r[1] \notin DOMAIN ghostAircraft

(***************************************************************************)
(* Datablock layout.                                                       *)
(***************************************************************************)
HasManualOffset(state) ==
    state.datablockManualOffset[1] # 0 \/ state.datablockManualOffset[2] # 0

\* the manual offset is not looked at
WindowDatablockBoundsAutomaticOnly(state, p) ==
    Offset(Offset(state.datablockBounds, p), state.datablockAutomaticOffset)

\* AircraftScopeState.WindowDatablockBounds
WindowDatablockBounds(state, p) ==
    LET db == Offset(state.datablockBounds, p)
    IN  IF HasManualOffset(state)
        THEN Offset(db, state.datablockManualOffset)
        ELSE Offset(db, state.datablockAutomaticOffset)

\* the aircraft every per-aircraft loop goes on with
Visible(i) == ~i.lostTrack /\ i.altitude >= MinAltitude /\ i.altitude <= MaxAltitude

\* the anchor with a south-east sector 90 degrees wide: the sectors after it
\* begin 30 degrees later
datablockConnectPWideSouthEast(bbox, heading) ==
    LET center == Center(bbox)
        h1 == heading + 15
        h2 == IF h1 < 0 THEN h1 + 360 ELSE h1
        h == IF h2 > 360 THEN h2 - 360 ELSE h2
    IN  IF h < 30 THEN <<<<bbox.p0[1], center[2]>>, FALSE>>
        ELSE IF h < 90 THEN <<<<bbox.p0[1], bbox.p1[2]>>, TRUE>>
        ELSE IF h < 120 THEN <<<<center[1], bbox.p1[2]>>, FALSE>>
        ELSE IF h < 210 THEN <<<<bbox.p0[1], bbox.p0[2]>>, TRUE>>
        ELSE IF h < 240 THEN <<<<bbox.p0[1], center[2]>>, FALSE>>
        ELSE IF h < 300 THEN <<<<bbox.p0[1], bbox.p1[2]>>, TRUE>>
        ELSE IF h < 330 THEN <<<<center[1], bbox.p0[2]>>, FALSE>>
        ELSE <<<<bbox.p0[1], bbox.p0[2]>>, TRUE>>

\* the point of bbox to connect to the track, and whether it is a corner
datablockConnectP(bbox, heading) ==
    LET center == Center(bbox)
        h1 == heading + 15
        h2 == IF h1 < 0 THEN h1 + 360 ELSE h1
        h == IF h2 > 360 THEN h2 - 360 ELSE h2
    IN  IF h < 30 THEN <<<<bbox.p0[1], center[2]>>, FALSE>>
        ELSE IF h < 90 THEN <<<<bbox.p0[1], bbox.p1[2]>>, TRUE>>
        ELSE IF h < 120 THEN <<<<center[1], bbox.p1[2]>>, FALSE>>
        ELSE IF h < 180 THEN <<<<bbox.p0[1], bbox.p0[2]>>, TRUE>>
        ELSE IF h < 210 THEN <<<<bbox.p0[1], center[2]>>, FALSE>>
        ELSE IF h < 270 THEN <<<<bbox.p0[1], bbox.p1[2]>>, TRUE>>
        ELSE IF h < 300 THEN <<<<center[1], bbox.p0[2]>>, FALSE>>
        ELSE <<<<bbox.p0[1], bbox.p0[2]>>, TRUE>>

\* the offset that puts the connection point of the padded datablock at the track
offsetSelfOnly(i, state, rot) ==
    LET bbox == Expand(state.datablockBounds, Px(DatablockPadding))
        c == datablockConnectP(bbox, i.heading + rot)
        v == scale2f(c[1], -1)
    IN  IF ~c[2] THEN add2f(v, scale2f(normalize2f(v), EdgeSlop)) ELSE v

\* a layout with respect to the own track that does not look at the manual
\* offset
layoutSelfOnlyIgnoresManual(ac, inf, rot) ==
    [a \in DOMAIN ac |->
        IF ~Visible(inf[a]) THEN ac[a]
        ELSE [ac[a] EXCEPT !.datablockAutomaticOffset =
                               offsetSelfOnly(inf[a], ac[a], rot)]]

\* layout of every datablock with respect to its own track alone
layoutSelfOnly(ac, inf, rot) ==
    [a \in DOMAIN ac |->
        IF ~Visible(inf[a]) THEN ac[a]
        ELSE IF HasManualOffset(ac[a])
             THEN [ac[a] EXCEPT !.datablockAutomaticOffset = <<0, 0>>]
             ELSE [ac[a] EXCEPT !.datablockAutomaticOffset =
                                    offsetSelfOnly(inf[a], ac[a], rot)]]

\* every track counts as on screen
OnScreenAnywhere(pw) == TRUE

\* is the track on screen, or getting there?
OnScreen(pw) ==
    /\ pw[1] > Px(-OnScreenMargin) /\ pw[1] < Px(PaneWidth + OnScreenMargin)
    /\ pw[2] > Px(-OnScreenMargin) /\ pw[2] < Px(PaneHeight + OnScreenMargin)

Callsign(a) == a

\* the aircraft of S, sorted by callsign
RECURSIVE SortByCallsign(_)
SortByCallsign(S) ==
    IF S = {} THEN <<>>
    ELSE LET a == CHOOSE x \in S : \A y \in S : Callsign(x) <= Callsign(y)
         IN  <<a>> \o SortByCallsign(S \ {a})

\* the sorted slice of the aircraft to lay out
LayoutAircraft(ac, inf) ==
    SortByCallsign({a \in DOMAIN ac : Visible(inf[a]) /\ OnScreen(inf[a].pw)})

\* the locals of the automatic layout: the pane's states, datablockBounds, placed,
\* and (to tell the passes apart afterwards) the indices the second pass placed
Locals(ac, b, pl, id) == [ac |-> ac, datablockBounds |-> b, placed |-> pl, ideal |-> id]

\* first pass: anyone who has a manual offset goes where they go
PlaceManual(ac, order, inf) ==
    Locals(ac,
           [i \in DOMAIN order |->
               IF HasManualOffset(ac[order[i]])
               THEN Expand(WindowDatablockBounds(ac[order[i]], inf[order[i]].pw),
                           Px(DatablockPadding))
               ELSE Extent2D(<<0, 0>>, <<0, 0>>)],
           [i \in DOMAIN order |-> HasManualOffset(ac[order[i]])],
           {})

\* the loop returns true at the first placed datablock that b does not overlap
allowedByAny(b, bounds, placed) ==
    \/ \A i \in DOMAIN bounds : ~placed[i]
    \/ \E i \in DOMAIN bounds : placed[i] /\ ~Overlaps(b, bounds[i])

\* the allowed of the second pass: b overlaps no placed datablock
allowed(b, bounds, placed) ==
    \A i \in DOMAIN bounds : ~(placed[i] /\ Overlaps(b, bounds[i]))

\* second pass, for the aircraft at index i
PlaceIdealOne(L, order, inf, rot, i) ==
    LET state == L.ac[order[i]]
        offset == offsetSelfOnly(inf[order[i]], state, rot)
        netOffset == sub2f(offset, state.datablockAutomaticOffset)
        db == Offset(Expand(WindowDatablockBounds(state, inf[order[i]].pw),
                            Px(DatablockPadding)), netOffset)
    IN  IF L.placed[i] \/ ~allowed(db, L.datablockBounds, L.placed) THEN L
        ELSE Locals([L.ac EXCEPT ![order[i]].datablockAutomaticOffset = offset],
                    [L.datablockBounds EXCEPT ![i] = db],
                    [L.placed EXCEPT ![i] = TRUE],
                    L.ideal \cup {i})

RECURSIVE PlaceIdeal(_, _, _, _, _)
PlaceIdeal(L, order, inf, rot, i) ==
    IF i > Len(order) THEN L
    ELSE PlaceIdeal(PlaceIdealOne(L, order, inf, rot, i), order, inf, rot, i + 1)

\* third pass: an unplaced datablock never seen before starts at the ideal offset
StartUnplaced(L, order, inf, rot) ==
    [L EXCEPT !.ac =
        [a \in DOMAIN L.ac |->
            IF /\ \E i \in DOMAIN order : order[i] = a /\ ~L.placed[i]
               /\ IsZero2f(L.ac[a].datablockAutomaticOffset)
            THEN [L.ac[a] EXCEPT !.datablockAutomaticOffset =
                                     offsetSelfOnly(inf[a], L.ac[a], rot)]
            ELSE L.ac[a]]]

\* the current datablockBounds of the unplaced aircraft
InitUnplacedBounds(L, order, inf) ==
    [L EXCEPT !.datablockBounds =
        [i \in DOMAIN order |->
            IF L.placed[i] THEN L.datablockBounds[i]
            ELSE Expand(WindowDatablockBounds(L.ac[order[i]], inf[order[i]].pw),
                        Px(DatablockPadding))]]

\* is datablock i pushed by datablock j?
Repulses(bounds, i, j) == i # j /\ Overlaps(bounds[i], bounds[j])

RECURSIVE SumRepulsion(_, _, _, _)
SumRepulsion(bounds, i, j, force) ==
    IF j > Len(bounds) THEN force
    ELSE IF ~Repulses(bounds, i, j)
         THEN SumRepulsion(bounds, i, j + 1, force)
         ELSE SumRepulsion(bounds, i, j + 1,
                  add2f(force, normalize2f(sub2f(Center(bounds[i]), Center(bounds[j])))))

\* the force on datablock i of one iteration: scaled, and no longer than maxlen
RelaxForce(bounds, i) ==
    LET force == scale2f(SumRepulsion(bounds, i, 1, <<0, 0>>), IterScale)
        len == length2f(force)
    IN  IF len > Px(MaxForce)
        THEN <<Quot(force[1] * Px(MaxForce), len), Quot(force[2] * Px(MaxForce), len)>>
        ELSE force

\* one iteration for the datablock at index i: the force goes to the automatic
\* offset, and datablockBounds[i] is assigned db, the bounds it had
RelaxOne(L, order, i) ==
    LET db == L.datablockBounds[i]
        force == RelaxForce(L.datablockBounds, i)
    IN  IF L.placed[i] THEN L
        ELSE [L EXCEPT !.ac[order[i]].datablockAutomaticOffset =
                           add2f(L.ac[order[i]].datablockAutomaticOffset, force),
                       !.datablockBounds[i] = db]

\* one iteration over the aircraft from index i on; the second component is anyOverlap
RECURSIVE RelaxPass(_, _, _, _)
RelaxPass(L, order, i, anyOverlap) ==
    IF i > Len(order) THEN <<L, anyOverlap>>
    ELSE RelaxPass(RelaxOne(L, order, i), order, i + 1,
                   anyOverlap \/ (~L.placed[i] /\ \E j \in DOMAIN order :
                                                     Repulses(L.datablockBounds, i, j)))

\* the iterations from iter on; the break on no overlap is commented out in the
\* program, so every iteration runs
RECURSIVE Relax(_, _, _)
Relax(L, order, iter) ==
    IF iter >= RelaxIterations THEN L
    ELSE LET r == RelaxPass(L, order, 1, FALSE)
         IN  IF ~r[2] THEN Relax(r[1], order, iter + 1) ELSE Relax(r[1], order, iter + 1)

\* the number of iterations the relaxation runs from iter on
RECURSIVE RelaxCount(_, _, _)
RelaxCount(L, order, iter) ==
    IF iter >= RelaxIterations THEN 0
    ELSE LET r == RelaxPass(L, order, 1, FALSE)
         IN  IF ~r[2] THEN 1 + RelaxCount(r[1], order, iter + 1)
             ELSE 1 + RelaxCount(r[1], order, iter + 1)

\* an allowed that lets every datablock through
allowedAttractAlways(idx, b, bounds) == TRUE

\* the allowed of the attraction loop: b overlaps no datablock but that at idx
allowedAttract(idx, b, bounds) ==
    \A i \in DOMAIN bounds : i = idx \/ ~Overlaps(b, bounds[i])

\* a step back that moves the datablock and leaves the automatic offset as it is
AttractOneKeepsOffset(L, order, inf, rot, i) ==
    LET db == L.datablockBounds[i]
        state == L.ac[order[i]]
        goBack == sub2f(offsetSelfOnly(inf[order[i]], state, rot),
                        state.datablockAutomaticOffset)
        force == normalize2f(goBack)
        dbMoved == Offset(db, force)
    IN  IF L.placed[i] \/ length2f(goBack) < Px(AttractMinLength)
           \/ ~allowedAttract(i, dbMoved, L.datablockBounds)
        THEN <<L, FALSE>>
        ELSE <<[L EXCEPT !.datablockBounds[i] = dbMoved], TRUE>>

\* one step of the datablock at index i back to its ideal offset, if it may be
\* taken; the second component tells whether it was
AttractOne(L, order, inf, rot, i) ==
    LET db == L.datablockBounds[i]
        state == L.ac[order[i]]
        goBack == sub2f(offsetSelfOnly(inf[order[i]], state, rot),
                        state.datablockAutomaticOffset)
        force == normalize2f(goBack)
        dbMoved == Offset(db, force)
    IN  IF L.placed[i] \/ length2f(goBack) < Px(AttractMinLength)
           \/ ~allowedAttract(i, dbMoved, L.datablockBounds)
        THEN <<L, FALSE>>
        ELSE <<[L EXCEPT !.datablockBounds[i] = dbMoved,
                         !.ac[order[i]].datablockAutomaticOffset =
                             add2f(state.datablockAutomaticOffset, force)],
               TRUE>>

RECURSIVE AttractPass(_, _, _, _, _, _)
AttractPass(L, order, inf, rot, i, anyMoved) ==
    IF i > Len(order) THEN <<L, anyMoved>>
    ELSE LET r == AttractOne(L, order, inf, rot, i)
         IN  AttractPass(r[1], order, inf, rot, i + 1, anyMoved \/ r[2])

RECURSIVE Attract(_, _, _, _)
Attract(L, order, inf, rot) ==
    LET r == AttractPass(L, order, inf, rot, 1, FALSE)
    IN  IF r[2] THEN Attract(r[1], order, inf, rot) ELSE r[1]

\* the locals of the automatic layout of the aircraft in order when the
\* relaxation begins
BeforeRelaxIn(ac, order, inf, rot) ==
    LET L1 == PlaceManual(ac, order, inf)
        L2 == PlaceIdeal(L1, order, inf, rot, 1)
    IN  InitUnplacedBounds(StartUnplaced(L2, order, inf, rot), order, inf)

\* the automatic layout of the aircraft in order: the locals when
\* layoutDatablocks returns
layoutAutomaticIn(ac, order, inf, rot) ==
    Attract(Relax(BeforeRelaxIn(ac, order, inf, rot), order, 0), order, inf, rot)

\* the automatic layout: the locals when layoutDatablocks returns
layoutAutomatic(ac, inf, rot) == layoutAutomaticIn(ac, LayoutAircraft(ac, inf), inf, rot)

layoutDatablocks ==
    /\ layoutRuns < MaxLayoutRuns
    /\ layoutRuns' = layoutRuns + 1
    /\ IF ~AutomaticDatablockLayout
       THEN /\ aircraft' = layoutSelfOnly(aircraft, info, RotationAngle)
            /\ placement' = [NoPlacement EXCEPT !.mode = "self"]
       ELSE LET L == layoutAutomatic(aircraft, info, RotationAngle)
            IN  /\ aircraft' = L.ac
                /\ placement' = [NoPlacement EXCEPT
                                     !.mode = "automatic",
                                     !.aircraft = LayoutAircraft(aircraft, info),
                                     !.placed = L.placed,
                                     !.datablockBounds = L.datablockBounds,
                                     !.ideal = L.ideal]
    /\ UNCHANGED <<info, RotationAngle, AutomaticDatablockLayout>>
    /\ UNCHANGED <<server, ghostable, events, CRDAEnabled, ghostAircraft,
                   pointedOutAircraft, removedInFrame, rangeVars, dupeVars>>

\* a slice as no sort leaves it
SortSliceKeepsOrder(seq) == seq

\* sort.Slice by callsign: the slice with every element put after those that
\* have a smaller callsign
RECURSIVE SortSlice(_)
SortSlice(seq) ==
    IF Len(seq) <= 1 THEN seq
    ELSE LET rest == SortSlice(Tail(seq))
             before == SelectSeq(rest, LAMBDA x : Callsign(x) < Callsign(Head(seq)))
             after == SelectSeq(rest, LAMBDA x : ~(Callsign(x) < Callsign(Head(seq))))
         IN  before \o <<Head(seq)>> \o after

\* the slice of the aircraft to lay out when the map is iterated in the order
\* iteration
VisibleIterating(iteration, inf) ==
    SelectSeq(iteration, LAMBDA a : Visible(inf[a]) /\ OnScreen(inf[a].pw))

LayoutAircraftIterating(iteration, inf) == SortSlice(VisibleIterating(iteration, inf))

\* the orders a range over the keys S may take
IterationOrders(S) ==
    {seq \in [1..Cardinality(S) -> S] : \A a \in S : \E i \in DOMAIN seq : seq[i] = a}

\* layoutDatablocks in automatic mode, the map being iterated in the order
\* iteration
layoutDatablocksIterating(iteration) ==
    /\ layoutRuns < MaxLayoutRuns
    /\ AutomaticDatablockLayout
    /\ layoutRuns' = layoutRuns + 1
    /\ LET order == LayoutAircraftIterating(iteration, info)
           L == layoutAutomaticIn(aircraft, order, info, RotationAngle)
       IN  /\ aircraft' = L.ac
           /\ placement' = [NoPlacement EXCEPT
                                !.mode = "automatic",
                                !.aircraft = order,
                                !.placed = L.placed,
                                !.datablockBounds = L.datablockBounds,
                                !.ideal = L.ideal,
                                !.resorted = order # VisibleIterating(iteration, info)]
    /\ UNCHANGED <<info, RotationAngle, AutomaticDatablockLayout>>
    /\ UNCHANGED <<server, ghostable, events, CRDAEnabled, ghostAircraft,
                   pointedOutAircraft, removedInFrame, rangeVars, dupeVars>>

\* the locals of a layout that has come to its attraction loop: the pane's
\* states and what placement holds
AttractLocals == Locals(aircraft, placement.datablockBounds, placement.placed, placement.ideal)

\* layoutDatablocks in automatic mode up to the attraction loop
layoutUntilAttraction ==
    /\ layoutRuns < MaxLayoutRuns
    /\ AutomaticDatablockLayout
    /\ placement.mode # "attracting"
    /\ layoutRuns' = layoutRuns + 1
    /\ LET order == LayoutAircraft(aircraft, info)
           L == Relax(BeforeRelaxIn(aircraft, order, info, RotationAngle), order, 0)
       IN  /\ aircraft' = L.ac
           /\ placement' = [NoPlacement EXCEPT !.mode = "attracting",
                                               !.aircraft = order,
                                               !.placed = L.placed,
                                               !.datablockBounds = L.datablockBounds,
                                               !.ideal = L.ideal,
                                               !.relaxIterations =
                                                   RelaxCount(
                                                       BeforeRelaxIn(aircraft, order, info,
                                                                     RotationAngle),
                                                       order, 0)]
    /\ UNCHANGED <<info, RotationAngle, AutomaticDatablockLayout>>
    /\ UNCHANGED <<server, ghostable, events, CRDAEnabled, ghostAircraft,
                   pointedOutAircraft, removedInFrame, rangeVars, dupeVars>>

\* one pass of the attraction loop; the loop breaks after a pass that has moved
\* nothing, and layoutDatablocks returns
attractionPass ==
    /\ placement.mode = "attracting"
    /\ placement.attractPasses < MaxAttractPasses
    /\ LET r == AttractPass(AttractLocals, placement.aircraft, info, RotationAngle, 1, FALSE)
       IN  /\ aircraft' = r[1].ac
           /\ placement' = [placement EXCEPT
                                !.mode = IF r[2] THEN "attracting" ELSE "automatic",
                                !.datablockBounds = r[1].datablockBounds,
                                !.attractPasses = @ + 1]
    /\ UNCHANGED <<info, RotationAngle, AutomaticDatablockLayout, layoutRuns>>
    /\ UNCHANGED <<server, ghostable, events, CRDAEnabled, ghostAircraft,
                   pointedOutAircraft, removedInFrame, rangeVars, dupeVars>>

\* DrawUI: the "Automatic datablock layout" checkbox
SetAutomaticDatablockLayout ==
    /\ AutomaticDatablockLayout' = ~AutomaticDatablockLayout
    /\ UNCHANGED <<info, RotationAngle, placement, layoutRuns, storeVars, rangeVars, dupeVars>>

(***************************************************************************)
(* The layout specification: a snapshot of three tracked aircraft, whose   *)
(* datablock text and bounds updateDatablockTextAndBounds has computed,    *)
(* and layout passes over it in either mode.                               *)
(***************************************************************************)
LayoutIds == {1, 2, 3}

\* track positions in the window, in pixels; the last is off the screen
LayoutPositions == {<<50, 50>>, <<60, 50>>, <<56, 62>>}
FixedPosition == <<50, 50>>
OffScreenPosition == <<-150, 50>>

\* headings: an edge midpoint (north) and a corner (north-east)
LayoutHeadings == {0, 45}

\* manual offsets a drag has left, in pixels
LayoutManualOffsets == {<<0, 0>>, <<10, 10>>}

Snapshot(pw, heading, altitude, lost) ==
    [pw |-> <<Px(pw[1]), Px(pw[2])>>, heading |-> heading, altitude |-> altitude,
     lostTrack |-> lost, position |-> 0, arrive |-> "", rules |-> "IFR"]

\* what the snapshot may say of aircraft a: aircraft 1 is at a fixed place,
\* aircraft 2 heads north-east, and aircraft 3 alone may be lost, outside the
\* altitude band or off the screen
LayoutSnapshots(a) ==
    {Snapshot(pw, h, 5000, FALSE) :
        pw \in (IF a = 1 THEN {FixedPosition} ELSE LayoutPositions),
        h \in (IF a = 2 THEN {45} ELSE LayoutHeadings)}
    \cup (IF a = 3
          THEN {Snapshot(<<60, 50>>, 45, 5000, TRUE),
                Snapshot(<<60, 50>>, 45, MaxAltitude + 100, FALSE),
                Snapshot(OffScreenPosition, 45, 5000, FALSE)}
          ELSE {})

\* the state of a tracked aircraft whose text is current, with manual offset m
LaidOutState(m) ==
    [NewAircraftScopeState(FALSE) EXCEPT
        !.datablockManualOffset = <<Px(m[1]), Px(m[2])>>,
        !.datablockText = <<1, 1>>,
        !.datablockTextCurrent = TRUE,
        !.datablockBounds = Extent2D(<<0, -Px(TextHeight)>>, <<Px(TextWidth), 0>>)]

LayoutInit ==
    /\ RangeIdle
    /\ DupeIdle
    /\ server = LayoutIds
    /\ ghostable = {}
    /\ events = <<>>
    /\ CRDAEnabled = FALSE
    /\ ghostAircraft = EmptyMap
    /\ pointedOutAircraft = {}
    /\ removedInFrame = {}
    /\ info \in [LayoutIds -> UNION {LayoutSnapshots(a) : a \in LayoutIds}]
    /\ \A a \in LayoutIds : info[a] \in LayoutSnapshots(a)
    /\ aircraft \in [LayoutIds -> {LaidOutState(m) : m \in LayoutManualOffsets}]
    /\ RotationAngle = 0
    /\ AutomaticDatablockLayout \in BOOLEAN
    /\ placement = NoPlacement
    /\ layoutRuns = 0

LayoutNext ==
    \/ layoutDatablocks
    \/ SetAutomaticDatablockLayout

SpecLayout == LayoutInit /\ [][LayoutNext]_vars

(***************************************************************************)
(* Claims about the layout.                                                *)
(***************************************************************************)
\* a step of layoutDatablocks
LayoutStep == layoutRuns' = layoutRuns + 1

\* C1: a visible aircraft with a non-zero manual offset keeps it over
\* layoutDatablocks, in either mode, and its WindowDatablockBounds afterwards are
\* its datablockBounds translated by the track position and the manual offset,
\* whatever the other aircraft are.
ManualOffsetFixesTheBox ==
    [][LayoutStep =>
        \A a \in DOMAIN aircraft :
            (Visible(info[a]) /\ HasManualOffset(aircraft[a])) =>
                /\ aircraft'[a].datablockManualOffset = aircraft[a].datablockManualOffset
                /\ WindowDatablockBounds(aircraft'[a], info[a].pw)
                     = Offset(Offset(aircraft[a].datablockBounds, info[a].pw),
                              aircraft[a].datablockManualOffset)]_vars

\* an automatic pass has pinned a manual datablock that an unplaced one overlaps
PinnedBoxUnderPressure ==
    /\ placement.mode = "automatic"
    /\ \E i, j \in DOMAIN placement.placed :
        /\ placement.placed[i] /\ HasManualOffset(aircraft[placement.aircraft[i]])
        /\ ~placement.placed[j]
        /\ Overlaps(placement.datablockBounds[i], placement.datablockBounds[j])

\* C2, as claimed: after an automatic pass the boxes of the placed aircraft are
\* pairwise non-overlapping.
PlacedBoxesDoNotOverlap ==
    placement.mode = "automatic" =>
        \A i, j \in DOMAIN placement.placed :
            (i # j /\ placement.placed[i] /\ placement.placed[j]) =>
                ~Overlaps(placement.datablockBounds[i], placement.datablockBounds[j])

\* C2, amended: after an automatic pass the box of every aircraft the greedy pass
\* accepted overlaps no other placed box; two placed boxes overlap only if both
\* were pinned by their manual offsets.
GreedyBoxesOverlapNoPlacedBox ==
    placement.mode = "automatic" =>
        \A i \in placement.ideal, j \in DOMAIN placement.placed :
            (i # j /\ placement.placed[j]) =>
                ~Overlaps(placement.datablockBounds[i], placement.datablockBounds[j])

\* an automatic pass has pinned one box, accepted another at its ideal place and
\* turned a third away
GreedyAcceptedAndRefused ==
    /\ placement.mode = "automatic"
    /\ placement.ideal # {}
    /\ \E j \in DOMAIN placement.placed : placement.placed[j] /\ j \notin placement.ideal
    /\ \E k \in DOMAIN placement.placed : ~placement.placed[k]

\* C5: an automatic pass over the snapshot and the offsets the automatic pass
\* before it left changes no automatic offset.
AutomaticLayoutIsIdempotent ==
    [][(LayoutStep /\ AutomaticDatablockLayout /\ placement.mode = "automatic") =>
        \A a \in DOMAIN aircraft :
            aircraft'[a].datablockAutomaticOffset = aircraft[a].datablockAutomaticOffset]_vars

(***************************************************************************)
(* Range indicators and miles-in-trail lines.  The aircraft fly on one     *)
(* east-west line; a position is the distance east of its west end, in     *)
(* units of 1/NmUnits nm, and the magnetic variation is zero.              *)
(***************************************************************************)
Nm(n) == n * NmUnits

abs(x) == IF x < 0 THEN -x ELSE x

Min(a, b) == IF a <= b THEN a ELSE b

nmdistance2ll(p, q) == abs(p - q)

\* the heading from one position to another
headingp2ll(from, to) == IF to > from THEN 90 ELSE IF to < from THEN 270 ELSE 0

headingDifference(a, b) ==
    LET d == abs(a - b)
    IN  IF d > 180 THEN 360 - d ELSE d

\* where the arrival airports are
AirportPosition(ap) == IF ap = "KAAA" THEN 0 ELSE Nm(100)

\* rs.RangeLimits, as the sliders of DrawUI have set it
RangeLimits ==
    [IFR |-> [WarningLateral |-> Nm(5), WarningVertical |-> 1000,
              ViolationLateral |-> Nm(3), ViolationVertical |-> 500],
     VFR |-> [WarningLateral |-> Nm(3), WarningVertical |-> 500,
              ViolationLateral |-> Nm(2), ViolationVertical |-> 300]]

\* the limits of a pair: the more restrictive of the two aircraft's entries
LimitsFor(limits, inf, a, b) ==
    LET la == limits[inf[a].rules]
        lb == limits[inf[b].rules]
    IN  [WarningLateral |-> Min(la.WarningLateral, lb.WarningLateral),
         WarningVertical |-> Min(la.WarningVertical, lb.WarningVertical),
         ViolationLateral |-> Min(la.ViolationLateral, lb.ViolationLateral),
         ViolationVertical |-> Min(la.ViolationVertical, lb.ViolationVertical)]

Lateral(inf, a, b) == nmdistance2ll(inf[a].position, inf[b].position)

Vertical(inf, a, b) == abs(inf[a].altitude - inf[b].altitude)

IsViolation(inf, a, b, lim) ==
    Lateral(inf, a, b) < lim.ViolationLateral /\ Vertical(inf, a, b) < lim.ViolationVertical

IsWarning(inf, a, b, lim) ==
    Lateral(inf, a, b) < lim.WarningLateral /\ Vertical(inf, a, b) < lim.WarningVertical

\* the pairs i < j of 1..n, in order
RECURSIVE IndexPairs(_, _, _)
IndexPairs(n, i, j) ==
    IF i >= n THEN <<>>
    ELSE IF j > n THEN IndexPairs(n, i + 1, i + 2)
    ELSE <<<<i, j>>>> \o IndexPairs(n, i, j + 1)

\* GetConflicts: every unordered pair of the slice is a violation, else a
\* warning, else nothing
GetConflicts(list, inf, limits) ==
    LET ps == IndexPairs(Len(list), 1, 2)
        lim(p) == LimitsFor(limits, inf, list[p[1]], list[p[2]])
        viol(p) == IsViolation(inf, list[p[1]], list[p[2]], lim(p))
        warn(p) == ~viol(p) /\ IsWarning(inf, list[p[1]], list[p[2]], lim(p))
        conflict(p) == [aircraft |-> <<list[p[1]], list[p[2]]>>, limits |-> lim(p)]
        vs == SelectSeq(ps, viol)
        ws == SelectSeq(ps, warn)
    IN  [warnings |-> [k \in 1..Len(ws) |-> conflict(ws[k])],
         violations |-> [k \in 1..Len(vs) |-> conflict(vs[k])]]

\* the filter of drawRangeIndicators, with a strict lower altitude bound
RangeFilterAboveMinAltitude(state, i) ==
    ~state.isGhost /\ ~i.lostTrack /\ i.altitude > MinAltitude /\ i.altitude <= MaxAltitude

\* the filter of drawRangeIndicators
RangeFilter(state, i) ==
    ~state.isGhost /\ ~i.lostTrack /\ i.altitude >= MinAltitude /\ i.altitude <= MaxAltitude

\* FlattenMap(FilterMap(rs.aircraft, ...)): the map is walked in the order of
\* the callsigns
RangeAircraft(ac, inf) ==
    SortByCallsign({a \in DOMAIN ac : RangeFilter(ac[a], inf[a])})

\* the keys the two loops put into rs.rangeWarnings, one order only
OneWayPairs(conflicts) ==
    {conflicts[k].aircraft : k \in 1..Len(conflicts)}

\* the keys the two loops put into rs.rangeWarnings
BothWayPairs(conflicts) ==
    {conflicts[k].aircraft : k \in 1..Len(conflicts)}
    \cup {<<conflicts[k].aircraft[2], conflicts[k].aircraft[1]>> : k \in 1..Len(conflicts)}

\* the test of the audio alert, without the cooldown
AlertDueAtOnce(violations, last, now) ==
    Len(violations) > 0

\* the test of the audio alert
AlertDue(violations, last, now) ==
    Len(violations) > 0 /\ now - last > AlertCooldown

\* drawRangeIndicators, up to the audio alert
drawRangeIndicators(enabled, ac, inf, warned, last, now) ==
    IF ~enabled
    THEN [classified |-> FALSE, warnings |-> <<>>, violations |-> <<>>,
          rangeWarnings |-> warned, alerts |-> 0, lastRangeNotificationPlayed |-> last]
    ELSE LET c == GetConflicts(RangeAircraft(ac, inf), inf, RangeLimits)
             due == AlertDue(c.violations, last, now)
         IN  [classified |-> TRUE, warnings |-> c.warnings, violations |-> c.violations,
              rangeWarnings |-> BothWayPairs(c.warnings) \cup BothWayPairs(c.violations),
              alerts |-> IF due THEN 1 ELSE 0,
              lastRangeNotificationPlayed |-> IF due THEN now ELSE last]

\* how far an arrival is from its airport
DistanceToArrival(inf, a) == nmdistance2ll(inf[a].position, AirportPosition(inf[a].arrive))

RECURSIVE SortByDistance(_, _)
SortByDistance(S, inf) ==
    IF S = {} THEN <<>>
    ELSE LET a == CHOOSE x \in S : \A y \in S :
                      \/ DistanceToArrival(inf, x) < DistanceToArrival(inf, y)
                      \/ /\ DistanceToArrival(inf, x) = DistanceToArrival(inf, y)
                         /\ Callsign(x) <= Callsign(y)
         IN  <<a>> \o SortByDistance(S \ {a}, inf)

\* getDistanceSortedArrivals: the server's aircraft bound for one of the
\* airports, the nearest to its airport first
getDistanceSortedArrivals(all, inf, airports) ==
    SortByDistance({a \in all : inf[a].arrive \in airports}, inf)

\* drawMIT: inTrail
inTrail(inf, front, back) ==
    LET dalt == inf[back].altitude - inf[front].altitude
        backHeading == inf[back].heading
        angle == headingp2ll(inf[back].position, inf[front].position)
        diff == headingDifference(backHeading, angle)
    IN  diff < MITMaxHeadingDifference /\ dalt < MITMaxAltitudeDifference

\* the locals of the search for arr[i] before its loop over j
NoClosest == [closestSet |-> FALSE, closest |-> Nil, minDist |-> Nm(MITMaxDistance)]

\* the loop over j, from j on
RECURSIVE ClosestArrival(_, _, _, _, _)
ClosestArrival(arr, inf, i, j, best) ==
    IF j > Len(arr) THEN best
    ELSE LET ac == arr[i]
             ac2 == arr[j]
             dist == nmdistance2ll(inf[ac].position, inf[ac2].position)
         IN  IF i = j \/ inf[ac2].arrive # inf[ac].arrive
             THEN ClosestArrival(arr, inf, i, j + 1, best)
             ELSE IF dist < best.minDist /\ inTrail(inf, arr[i], arr[j])
             THEN ClosestArrival(arr, inf, i, j + 1,
                                 [closestSet |-> TRUE, closest |-> ac2, minDist |-> dist])
             ELSE ClosestArrival(arr, inf, i, j + 1, best)

\* the colour of a line
MITTier(dist) ==
    IF dist > Nm(MITSafeDistance) THEN "safe"
    ELSE IF dist > Nm(MITCautionDistance) THEN "caution"
    ELSE "danger"

\* annotatedLine, between the positions of two aircraft
annotatedLine(ac0, ac1, dist) ==
    [p0 |-> ac0, p1 |-> ac1, dist |-> dist, tier |-> MITTier(dist)]

\* the automatic lines, from arr[i] on
RECURSIVE AutoMITLines(_, _, _, _)
AutoMITLines(arr, inf, warned, i) ==
    IF i > Len(arr) THEN <<>>
    ELSE LET best == ClosestArrival(arr, inf, i, 1, NoClosest)
         IN  IF best.closestSet /\ <<arr[i], best.closest>> \notin warned
             THEN <<annotatedLine(arr[i], best.closest, best.minDist)>>
                  \o AutoMITLines(arr, inf, warned, i + 1)
             ELSE AutoMITLines(arr, inf, warned, i + 1)

\* the lines of the explicit sequence, from seq[i-1], seq[i] on
RECURSIVE ExplicitMITLines(_, _, _, _)
ExplicitMITLines(seq, inf, warned, i) ==
    IF i > Len(seq) THEN <<>>
    ELSE LET front == seq[i - 1]
             trailing == seq[i]
             dist == nmdistance2ll(inf[front].position, inf[trailing].position)
         IN  IF <<front, trailing>> \in warned
             THEN ExplicitMITLines(seq, inf, warned, i + 1)
             ELSE <<annotatedLine(front, trailing, dist)>>
                  \o ExplicitMITLines(seq, inf, warned, i + 1)

\* drawMIT: the arrivals it sorted, the aircraft it found for each but the
\* first (Nil when closestSet stayed false), and its lines
drawMIT(auto, airports, seq, all, inf, warned) ==
    IF auto /\ Len(seq) = 0
    THEN LET arr == getDistanceSortedArrivals(all, inf, airports)
         IN  [arrivals |-> arr,
              closest |-> [i \in 2..Len(arr) |->
                              ClosestArrival(arr, inf, i, 1, NoClosest).closest],
              mitLines |-> AutoMITLines(arr, inf, warned, 2)]
    ELSE [arrivals |-> <<>>, closest |-> EmptyMap,
          mitLines |-> ExplicitMITLines(seq, inf, warned, 2)]

\* Draw, from drawRangeIndicators to drawMIT, when no event is pending
drawRangeAndMIT ==
    LET r == drawRangeIndicators(DrawRangeIndicators, aircraft, info, rangeWarnings,
                                 lastRangeNotificationPlayed, clock)
        m == drawMIT(AutoMIT, AutoMITAirports, mit, server, info, r.rangeWarnings)
    IN  /\ ~frame.drawn
        /\ rangeWarnings' = r.rangeWarnings
        /\ lastRangeNotificationPlayed' = r.lastRangeNotificationPlayed
        /\ alerts' = IF r.alerts = 1 THEN Append(alerts, clock) ELSE alerts
        /\ frame' = [drawn |-> TRUE, classified |-> r.classified,
                     warnings |-> r.warnings, violations |-> r.violations,
                     alerts |-> r.alerts, arrivals |-> m.arrivals,
                     closest |-> m.closest, mitLines |-> m.mitLines]
        /\ UNCHANGED <<clock, DrawRangeIndicators, AutoMIT, AutoMITAirports, mit,
                       storeVars, layoutVars, dupeVars>>

\* a second passes
Tick ==
    /\ clock < MaxClock
    /\ clock' = clock + 1
    /\ frame' = NoFrame
    /\ UNCHANGED <<DrawRangeIndicators, rangeWarnings, lastRangeNotificationPlayed,
                   AutoMIT, AutoMITAirports, mit, alerts, storeVars, layoutVars, dupeVars>>

\* DrawUI: the "Aircraft range indicators" checkbox
SetDrawRangeIndicators ==
    /\ DrawRangeIndicators' = ~DrawRangeIndicators
    /\ frame' = NoFrame
    /\ UNCHANGED <<clock, rangeWarnings, lastRangeNotificationPlayed, AutoMIT,
                   AutoMITAirports, mit, alerts, storeVars, layoutVars, dupeVars>>

\* DrawUI: the "Automatic MIT lines for arrivals" checkbox
SetAutoMIT ==
    /\ AutoMIT' = ~AutoMIT
    /\ frame' = NoFrame
    /\ UNCHANGED <<clock, DrawRangeIndicators, rangeWarnings,
                   lastRangeNotificationPlayed, AutoMITAirports, mit, alerts,
                   storeVars, layoutVars, dupeVars>>

\* the aircraft move: the next frame reads snapshot inf
UpdateTraffic(inf) ==
    /\ inf # info
    /\ info' = inf
    /\ frame' = NoFrame
    /\ UNCHANGED <<RotationAngle, AutomaticDatablockLayout, placement, layoutRuns,
                   storeVars, clock, DrawRangeIndicators, rangeWarnings,
                   lastRangeNotificationPlayed, AutoMIT, AutoMITAirports, mit, alerts,
                   dupeVars>>

(***************************************************************************)
(* The range specification: three aircraft of the server and the ghost of  *)
(* the first, in every combination of a few positions, altitudes,          *)
(* headings, flight rules and destinations, and frames over them.          *)
(***************************************************************************)
RangeIds == {1, 2, 3}
RangeGhost == 11

Traffic(position, altitude, heading, arrive, rules, lost) ==
    [pw |-> <<0, 0>>, heading |-> heading, altitude |-> altitude, lostTrack |-> lost,
     position |-> position, arrive |-> arrive, rules |-> rules]

\* aircraft 1 flies west, 10 nm east of KAAA; the others are 4 nm ahead of it,
\* a unit less than 3 nm ahead, 3 nm behind, or a unit more than 20 nm behind
RangePositions == {Nm(6), Nm(7) + 1, Nm(13), Nm(30) + 1}

RangeAltitudes == {0, 3000, 3500, 6000}

RangeTraffic(a) ==
    IF a = 1 THEN {Traffic(Nm(10), 3000, 270, "KAAA", "IFR", FALSE)}
    ELSE IF a = 2
    THEN {Traffic(p, alt, h, "KAAA", r, FALSE) :
            p \in RangePositions, alt \in RangeAltitudes, h \in {270, 90},
            r \in {"IFR", "VFR"}}
    ELSE IF a = 3
    THEN {Traffic(p, alt, 270, ap, "IFR", lost) :
            p \in RangePositions, alt \in {0, 3000}, ap \in {"KAAA", "KBBB"},
            lost \in BOOLEAN}
    ELSE {Traffic(Nm(10) - 1, 3000, 270, "KAAA", "IFR", FALSE)}

\* the snapshot in which aircraft 2 and 3 are as t2 and t3 say
RangeSnapshot(t2, t3) ==
    [a \in RangeIds \cup {RangeGhost} |->
        IF a = 2 THEN t2
        ELSE IF a = 3 THEN t3
        ELSE CHOOSE t \in RangeTraffic(a) : TRUE]

\* positionConfig.mit: no sequence, or one the controller has set
RangeSequences == {<<>>, <<1, 2, 3>>, <<2, 1>>}

\* the pane tracks the three aircraft and the ghost of aircraft 1
RangeStore ==
    /\ DupeIdle
    /\ server = RangeIds
    /\ ghostable = {1}
    /\ events = <<>>
    /\ CRDAEnabled = TRUE
    /\ aircraft = [a \in RangeIds \cup {RangeGhost} |-> NewAircraftScopeState(a = RangeGhost)]
    /\ ghostAircraft = [a \in {1} |-> RangeGhost]
    /\ pointedOutAircraft = {}
    /\ removedInFrame = {}
    /\ RotationAngle = 0
    /\ AutomaticDatablockLayout = FALSE
    /\ placement = NoPlacement
    /\ layoutRuns = 0

RangeInit ==
    /\ RangeStore
    /\ info \in {RangeSnapshot(t2, t3) : t2 \in RangeTraffic(2), t3 \in RangeTraffic(3)}
    /\ clock = 0
    /\ DrawRangeIndicators \in BOOLEAN
    /\ rangeWarnings = {}
    /\ lastRangeNotificationPlayed = ZeroTime
    /\ AutoMIT = TRUE
    /\ AutoMITAirports = {"KAAA", "KBBB"}
    /\ mit \in RangeSequences
    /\ frame = NoFrame
    /\ alerts = <<>>

RangeNext ==
    \/ drawRangeAndMIT
    \/ SetDrawRangeIndicators
    \/ SetAutoMIT

SpecRange == RangeInit /\ [][RangeNext]_vars

(***************************************************************************)
(* The alert specification: the clock runs, the aircraft move between a    *)
(* few snapshots with no, one or three violations, and frames are drawn.   *)
(***************************************************************************)
ClearOfOne == Traffic(Nm(30) + 1, 3000, 270, "KAAA", "IFR", FALSE)
ClearOfAll == Traffic(Nm(30) + 1, 0, 270, "KAAA", "IFR", FALSE)
WarningOfOne == Traffic(Nm(6), 3000, 270, "KAAA", "IFR", FALSE)
ViolationOfOne == Traffic(Nm(7) + 1, 3000, 270, "KAAA", "IFR", FALSE)

AlertSnapshots ==
    {RangeSnapshot(ClearOfOne, ClearOfAll), RangeSnapshot(WarningOfOne, ClearOfAll),
     RangeSnapshot(ViolationOfOne, ClearOfAll), RangeSnapshot(ViolationOfOne, ViolationOfOne)}

AlertInit ==
    /\ RangeStore
    /\ info \in AlertSnapshots
    /\ clock = 0
    /\ DrawRangeIndicators = TRUE
    /\ rangeWarnings = {}
    /\ lastRangeNotificationPlayed = ZeroTime
    /\ AutoMIT = TRUE
    /\ AutoMITAirports = {"KAAA"}
    /\ mit = <<>>
    /\ frame = NoFrame
    /\ alerts = <<>>

AlertNext ==
    \/ drawRangeAndMIT
    \/ Tick
    \/ SetDrawRangeIndicators
    \/ \E inf \in AlertSnapshots : UpdateTraffic(inf)

SpecAlert == AlertInit /\ [][AlertNext]_vars

(***************************************************************************)
(* Claims about the alert, the classification and the MIT lines.           *)
(***************************************************************************)
\* a step that draws a frame
DrawStep == ~frame.drawn /\ frame'.drawn

\* when HandleEvent was last called
LastAlert == alerts[Len(alerts)]

\* C6: the alert fires only in drawing a frame, at most once in a frame, only in
\* a frame that has a violation, and never less than 3 seconds after the firing
\* before it; a frame with a violation 1 second after a firing fires none, and
\* one more than 3 seconds after it fires one.
AlertsAreRateLimited ==
    [][/\ alerts' # alerts => DrawStep
       /\ DrawStep =>
            LET fired == Len(alerts') - Len(alerts)
                violation == Len(frame'.violations) > 0
            IN  /\ fired \in {0, 1}
                /\ fired = frame'.alerts
                /\ fired = 1 => alerts' = Append(alerts, clock) /\ violation
                /\ (fired = 1 /\ alerts # <<>>) => clock - LastAlert >= AlertCooldown
                /\ (violation /\ alerts # <<>> /\ clock - LastAlert < AlertCooldown)
                        => fired = 0
                /\ (violation /\ alerts # <<>> /\ clock - LastAlert > AlertCooldown)
                        => fired = 1]_vars

\* a frame with several violations, drawn within the cooldown of the second
\* firing, that fired nothing
SilentWithinCooldown ==
    /\ frame.drawn
    /\ Len(frame.violations) >= 2
    /\ frame.alerts = 0
    /\ Len(alerts) >= 2
    /\ clock - LastAlert < AlertCooldown

\* C7: a frame that has a violation, drawn when no alert has fired yet or at
\* least 3 seconds after the last firing, fires exactly one alert and sets the
\* cooldown clock to the time of the frame.
AlertFiresOnceCooldownIsOver ==
    [][(/\ DrawStep
        /\ Len(frame'.violations) > 0
        /\ (alerts = <<>> \/ clock - LastAlert >= AlertCooldown))
            => /\ frame'.alerts = 1
               /\ alerts' = Append(alerts, clock)
               /\ lastRangeNotificationPlayed' = clock]_vars

\* the pair is within the warning or the violation thresholds
WithinThresholds(inf, a, b) ==
    LET lim == LimitsFor(RangeLimits, inf, a, b)
    IN  \/ Lateral(inf, a, b) < lim.ViolationLateral
           /\ Vertical(inf, a, b) < lim.ViolationVertical
        \/ Lateral(inf, a, b) < lim.WarningLateral
           /\ Vertical(inf, a, b) < lim.WarningVertical

\* the pairs the frame's lists flag
FlaggedPairs ==
    {frame.warnings[k].aircraft : k \in 1..Len(frame.warnings)}
    \cup {frame.violations[k].aircraft : k \in 1..Len(frame.violations)}

\* C8 as stated: in every frame, in either MIT mode, no MIT line joins two
\* aircraft that are within the warning or violation thresholds.
NoMITLineWithinThresholds ==
    frame.drawn =>
        \A k \in 1..Len(frame.mitLines) :
            ~WithinThresholds(info, frame.mitLines[k].p0, frame.mitLines[k].p1)

\* C8: in every frame in which the classification runs, in either MIT mode, no MIT
\* line joins two aircraft of a pair the frame's warnings or violations list,
\* whichever of the two leads and in whichever order the list names them.
NoMITLineForFlaggedPair ==
    (frame.drawn /\ frame.classified) =>
        \A k \in 1..Len(frame.mitLines) : \A pair \in FlaggedPairs :
            {frame.mitLines[k].p0, frame.mitLines[k].p1} # {pair[1], pair[2]}

\* an explicit sequence of two aircraft that the frame flagged in the other
\* order, and no line
SuppressedInReverseOrder ==
    /\ frame.drawn
    /\ frame.classified
    /\ Len(mit) = 2
    /\ <<mit[2], mit[1]>> \in FlaggedPairs
    /\ <<mit[1], mit[2]>> \notin FlaggedPairs
    /\ frame.mitLines = <<>>

\* the arrivals the claim lets the trailing aircraft t follow
QualifiedPredecessors(inf, arr, t) ==
    {c \in Range(arr) \ {t} :
        /\ inf[c].arrive = inf[t].arrive
        /\ nmdistance2ll(inf[t].position, inf[c].position) < Nm(MITMaxDistance)
        /\ headingDifference(inf[t].heading,
                             headingp2ll(inf[t].position, inf[c].position))
                < MITMaxHeadingDifference
        /\ abs(inf[t].altitude - inf[c].altitude) < MITMaxAltitudeDifference}

\* C9: in automatic mode, the aircraft found for every arrival but the first is
\* one of the nearest of those bound for the same airport that are within 20 nm,
\* less than 150 degrees off the trailing aircraft's heading and less than 3000 ft
\* above or below it, and none is found when there is no such aircraft.
NearestQualifiedPredecessor ==
    (frame.drawn /\ AutoMIT /\ mit = <<>>) =>
        \A i \in 2..Len(frame.arrivals) :
            LET t == frame.arrivals[i]
                Q == QualifiedPredecessors(info, frame.arrivals, t)
            IN  IF Q = {} THEN frame.closest[i] = Nil
                ELSE /\ frame.closest[i] \in Q
                     /\ \A c \in Q :
                            nmdistance2ll(info[t].position, info[frame.closest[i]].position)
                                <= nmdistance2ll(info[t].position, info[c].position)

\* how many entries of the list name the pair, in either order
Entries(list, a, b) ==
    Cardinality({k \in 1..Len(list) : list[k].aircraft \in {<<a, b>>, <<b, a>>}})

\* the unordered pairs of tracked aircraft that are no ghosts, have a track and
\* are inside the altitude band
EligiblePairs ==
    {p \in (DOMAIN aircraft) \X (DOMAIN aircraft) :
        /\ p[1] < p[2]
        /\ \A a \in {p[1], p[2]} : ~aircraft[a].isGhost /\ Visible(info[a])}

Panes == {"rs", "dupe"}

MapFields == {"aircraft", "ghostAircraft", "rangeWarnings", "AutoMITAirports"}

\* the fields of a pane
Pane(p) ==
    IF p = "rs"
    THEN [aircraft |-> aircraft, ghostAircraft |-> ghostAircraft,
          rangeWarnings |-> rangeWarnings, AutoMITAirports |-> AutoMITAirports,
          pointedOutAircraft |-> pointedOutAircraft, events |-> events,
          lastRangeNotificationPlayed |-> lastRangeNotificationPlayed]
    ELSE [aircraft |-> dupe.aircraft, ghostAircraft |-> dupe.ghostAircraft,
          rangeWarnings |-> dupe.rangeWarnings, AutoMITAirports |-> dupe.AutoMITAirports,
          pointedOutAircraft |-> dupe.pointedOutAircraft, events |-> dupe.events,
          lastRangeNotificationPlayed |-> dupe.lastRangeNotificationPlayed]

\* the pointer to the copy Duplicate makes of the ghost g
CopyOffset == 10
CopyOfGhost(g) == g + CopyOffset

\* *dupe = *rs alone: every map of the duplicate is the map of rs
DuplicateShallow(rs) ==
    [made |-> TRUE, shared |-> MapFields, aircraft |-> rs.aircraft,
     ghostAircraft |-> rs.ghostAircraft, rangeWarnings |-> rs.rangeWarnings,
     AutoMITAirports |-> rs.AutoMITAirports,
     pointedOutAircraft |-> {}, events |-> <<>>,
     lastRangeNotificationPlayed |-> rs.lastRangeNotificationPlayed]

\* Duplicate
Duplicate(rs) ==
    [made |-> TRUE,
     shared |-> {},
     rangeWarnings |-> rs.rangeWarnings,
     aircraft |-> [ac \in DOMAIN rs.aircraft |->
                     [NewAircraftScopeState(rs.aircraft[ac].isGhost) EXCEPT
                         !.datablockText = rs.aircraft[ac].datablockText]],
     ghostAircraft |-> [ac \in DOMAIN rs.ghostAircraft |->
                          CopyOfGhost(rs.ghostAircraft[ac])],
     pointedOutAircraft |-> {},
     AutoMITAirports |-> rs.AutoMITAirports,
     events |-> <<>>,
     lastRangeNotificationPlayed |-> rs.lastRangeNotificationPlayed]

\* field f of pane q once pane p has made its fields new, having assigned
\* itself new maps for the fields in replaced
Written(p, q, new, replaced, f) ==
    IF q = p \/ f \in dupe.shared \ replaced THEN new[f] ELSE Pane(q)[f]

SetPanes(p, new, replaced) ==
    /\ aircraft' = Written(p, "rs", new, replaced, "aircraft")
    /\ ghostAircraft' = Written(p, "rs", new, replaced, "ghostAircraft")
    /\ rangeWarnings' = Written(p, "rs", new, replaced, "rangeWarnings")
    /\ AutoMITAirports' = Written(p, "rs", new, replaced, "AutoMITAirports")
    /\ pointedOutAircraft' = IF p = "rs" THEN new.pointedOutAircraft ELSE pointedOutAircraft
    /\ events' = IF p = "rs" THEN new.events ELSE events
    /\ lastRangeNotificationPlayed' =
            IF p = "rs" THEN new.lastRangeNotificationPlayed
            ELSE lastRangeNotificationPlayed
    /\ dupe' = [dupe EXCEPT
            !.shared = @ \ replaced,
            !.aircraft = Written(p, "dupe", new, replaced, "aircraft"),
            !.ghostAircraft = Written(p, "dupe", new, replaced, "ghostAircraft"),
            !.rangeWarnings = Written(p, "dupe", new, replaced, "rangeWarnings"),
            !.AutoMITAirports = Written(p, "dupe", new, replaced, "AutoMITAirports"),
            !.pointedOutAircraft = IF p = "dupe" THEN new.pointedOutAircraft ELSE @,
            !.events = IF p = "dupe" THEN new.events ELSE @,
            !.lastRangeNotificationPlayed =
                IF p = "dupe" THEN new.lastRangeNotificationPlayed ELSE @]
    /\ lastPane' = p

\* the pane exists
Made(p) == p = "rs" \/ dupe.made

DuplicatePane ==
    /\ ~dupe.made
    /\ dupe' = Duplicate(Pane("rs"))
    /\ UNCHANGED <<storeVars, layoutVars, rangeVars, lastPane, passes>>

\* updateDatablockTextAndBounds: the text and the bounds of every aircraft in
\* the altitude band whose text is not current
updateDatablockTextAndBounds(ac, inf) ==
    [a \in DOMAIN ac |->
        IF Visible(inf[a]) /\ ~ac[a].datablockTextCurrent
        THEN [ac[a] EXCEPT
                !.datablockText = <<1, 1>>,
                !.datablockTextCurrent = TRUE,
                !.datablockBounds = Extent2D(<<0, -Px(TextHeight)>>, <<Px(TextWidth), 0>>)]
        ELSE ac[a]]

\* the mouse of a frame: the aircraft selected by its datablock (or Nil) and
\* how far the primary button dragged it
NoDrag == [ac |-> Nil, delta |-> <<0, 0>>]

\* a drag that adds the delta to the manual offset alone
dragDatablockFromManual(state, delta) ==
    [state EXCEPT
        !.datablockManualOffset = add2f(state.datablockManualOffset, delta),
        !.datablockAutomaticOffset = <<0, 0>>]

\* a drag that leaves the automatic offset as it is
dragDatablockKeepsAutomatic(state, delta) ==
    [state EXCEPT
        !.datablockManualOffset =
            add2f(state.datablockAutomaticOffset, add2f(state.datablockManualOffset, delta))]

\* consumeMouseEvents: the drag of the selected datablock
dragDatablock(state, delta) ==
    [state EXCEPT
        !.datablockManualOffset =
            add2f(state.datablockAutomaticOffset, add2f(state.datablockManualOffset, delta)),
        !.datablockAutomaticOffset = <<0, 0>>]

consumeMouseEvents(ac, drag) ==
    IF drag.ac # Nil /\ drag.ac \in DOMAIN ac
    THEN [ac EXCEPT ![drag.ac] = dragDatablock(@, drag.delta)]
    ELSE ac

\* a frame in which the passes run on the store as it is and the pending events
\* are applied after them
DrawEventsLast(P, drag) ==
    LET texted == updateDatablockTextAndBounds(P.aircraft, info)
        laid == IF ~AutomaticDatablockLayout
                THEN layoutSelfOnly(texted, info, RotationAngle)
                ELSE layoutAutomatic(texted, info, RotationAngle).ac
        r == drawRangeIndicators(DrawRangeIndicators, laid, info, P.rangeWarnings,
                                 P.lastRangeNotificationPlayed, clock)
        st == ApplyEvents(Store(consumeMouseEvents(laid, drag), P.ghostAircraft,
                                P.pointedOutAircraft, TRUE),
                          P.events, Len(P.events), CRDAEnabled, ghostable)
    IN  [ok |-> st.ok,
         pane |-> [P EXCEPT !.aircraft = st.aircraft,
                            !.ghostAircraft = st.ghostAircraft,
                            !.pointedOutAircraft = st.pointedOutAircraft,
                            !.events = <<>>,
                            !.rangeWarnings = r.rangeWarnings,
                            !.lastRangeNotificationPlayed = r.lastRangeNotificationPlayed],
         classified |-> r.classified,
         alerts |-> r.alerts,
         read |-> [text |-> P.aircraft, layout |-> texted, range |-> laid]]

\* what a frame leaves: st is the store after the pending events, texted the
\* store after updateDatablockTextAndBounds, laid the store after the layout
\* and r the outcome of drawRangeIndicators; read is the store each pass was
\* given
DrawPasses(P, drag, st, texted, laid, r) ==
    [ok |-> st.ok,
     pane |-> [P EXCEPT !.aircraft = consumeMouseEvents(laid, drag),
                        !.ghostAircraft = st.ghostAircraft,
                        !.pointedOutAircraft = st.pointedOutAircraft,
                        !.events = <<>>,
                        !.rangeWarnings = r.rangeWarnings,
                        !.lastRangeNotificationPlayed = r.lastRangeNotificationPlayed],
     classified |-> r.classified,
     alerts |-> r.alerts,
     read |-> [text |-> st.aircraft, layout |-> texted, range |-> laid]]

\* Draw: the pending events, the text, the layout, the range indicators and the
\* mouse, in this order
Draw(P, drag) ==
    LET st == ApplyEvents(Store(P.aircraft, P.ghostAircraft, P.pointedOutAircraft, TRUE),
                          P.events, Len(P.events), CRDAEnabled, ghostable)
        texted == updateDatablockTextAndBounds(st.aircraft, info)
        laid == IF ~AutomaticDatablockLayout
                THEN layoutSelfOnly(texted, info, RotationAngle)
                ELSE SameMap(layoutAutomatic(texted, info, RotationAngle).ac)
        r == drawRangeIndicators(DrawRangeIndicators, laid, info, P.rangeWarnings,
                                 P.lastRangeNotificationPlayed, clock)
    IN  DrawPasses(P, drag, st, texted, laid, r)

\* the frame d of pane p becomes the state; the datablock dragged is one the
\* pane tracks, and stays within MaxDragOffset of its track
PaneFrame(p, drag, d) ==
    /\ Made(p)
    /\ d.ok
    /\ drag.ac # Nil => drag.ac \in DOMAIN d.pane.aircraft
    /\ drag.ac # Nil =>
          \A k \in 1..2 :
             abs(d.pane.aircraft[drag.ac].datablockManualOffset[k]) <= Px(MaxDragOffset)
    /\ SetPanes(p, d.pane, IF d.classified THEN {"rangeWarnings"} ELSE {})
    /\ alerts' = IF d.alerts = 1 THEN Append(alerts, clock) ELSE alerts
    /\ passes' = d.read
    /\ UNCHANGED <<server, ghostable, CRDAEnabled, removedInFrame, clock,
                   DrawRangeIndicators, AutoMIT, mit, frame>>

PaneDrawn(p, drag, d) ==
    /\ PaneFrame(p, drag, d)
    /\ UNCHANGED layoutVars

\* a frame of pane p
PaneDraw(p, drag) == PaneDrawn(p, drag, Draw(Pane(p), drag))

\* DrawUI of pane p: the airport selector ticks or unticks an airport
PaneSelectAirport(p, ap) ==
    LET P == Pane(p)
    IN  /\ Made(p)
        /\ SetPanes(p, [P EXCEPT !.AutoMITAirports =
                                    IF ap \in @ THEN @ \ {ap} ELSE @ \cup {ap}], {})
        /\ UNCHANGED <<server, ghostable, CRDAEnabled, removedInFrame, layoutVars,
                       clock, DrawRangeIndicators, AutoMIT, mit, frame, alerts, passes>>

(***************************************************************************)
(* The duplicate specification: a pane that tracks two aircraft, the first *)
(* with a ghost and with offsets a drag and a layout pass have left; it is *)
(* duplicated, and events, drags, layout passes, classification passes and *)
(* airport selections go on in either pane.                                *)
(***************************************************************************)
\* the tracks: aircraft 2 is 4 nm ahead of aircraft 1, the ghosts are far away
DuplicateTrack(a) ==
    IF a = 1
    THEN [Traffic(Nm(10), 3000, 270, "KAAA", "IFR", FALSE) EXCEPT !.pw = <<Px(50), Px(50)>>]
    ELSE IF a = 2
    THEN [Traffic(Nm(6), 3000, 270, "KAAA", "IFR", FALSE) EXCEPT !.pw = <<Px(60), Px(50)>>]
    ELSE [Traffic(Nm(30) + 1, 3000, 270, "KAAA", "IFR", FALSE) EXCEPT !.pw = <<Px(56), Px(62)>>]

DuplicateSnapshot ==
    [a \in StoreAircraft \cup GhostIds \cup {CopyOfGhost(g) : g \in GhostIds} |->
        DuplicateTrack(a)]

\* the offsets of aircraft 1 in pixels, manual and automatic: a layout pass has
\* left an automatic offset, or the controller has dragged the datablock
DuplicateOffsets == {<<<<0, 0>>, <<5, -5>>>>, <<<<10, 10>>, <<0, 0>>>>}

\* the store of the first pane: the text of the aircraft is current, and
\* aircraft 1 has manual offset m and automatic offset o
DuplicateStore(st, m, o) ==
    [a \in DOMAIN st |->
        IF st[a].isGhost THEN st[a]
        ELSE IF a = 1
        THEN [LaidOutState(m) EXCEPT !.datablockAutomaticOffset = <<Px(o[1]), Px(o[2])>>]
        ELSE LaidOutState(<<0, 0>>)]

\* the mouse is idle, or drags the datablock of aircraft 2 by 5 pixels
DuplicateDrags == {NoDrag, [ac |-> 2, delta |-> <<Px(5), Px(5)>>]}

DuplicateInit ==
    /\ server = StoreAircraft
    /\ ghostable = {1}
    /\ events = <<>>
    /\ CRDAEnabled = TRUE
    /\ pointedOutAircraft = {}
    /\ removedInFrame = {}
    /\ \E mo \in DuplicateOffsets :
          aircraft = DuplicateStore(
                        initializeAircraftStore({}, server, CRDAEnabled, ghostable).aircraft,
                        mo[1], mo[2])
    /\ ghostAircraft = initializeAircraftStore({}, server, CRDAEnabled, ghostable).ghostAircraft
    /\ info = DuplicateSnapshot
    /\ RotationAngle = 0
    /\ AutomaticDatablockLayout = FALSE
    /\ placement = NoPlacement
    /\ layoutRuns = 0
    /\ clock = 0
    /\ DrawRangeIndicators = TRUE
    /\ rangeWarnings = {}
    /\ lastRangeNotificationPlayed = ZeroTime
    /\ AutoMIT = TRUE
    /\ AutoMITAirports = {}
    /\ mit = <<>>
    /\ frame = NoFrame
    /\ alerts = <<>>
    /\ DupeIdle

DuplicateNext ==
    \/ DuplicatePane
    \/ ServerAddAircraft(1)
    \/ ServerRemoveAircraft(1)
    \/ \E p \in Panes, drag \in DuplicateDrags : PaneDraw(p, drag)
    \/ \E p \in Panes : PaneSelectAirport(p, "KAAA")

SpecDuplicate == DuplicateInit /\ [][DuplicateNext]_vars

\* a step of Duplicate
DuplicateStep == ~dupe.made /\ dupe'.made

(***************************************************************************)
(* Claims about Duplicate.                                                 *)
(***************************************************************************)
\* the ghost invariants on the store ac with the links gh
GhostInvariants(ac, gh) ==
    /\ \A s \in DOMAIN gh : gh[s] \in DOMAIN ac /\ ac[gh[s]].isGhost
    /\ \A g \in DOMAIN ac :
          ac[g].isGhost =>
              Cardinality({s \in DOMAIN gh :
                              s \in DOMAIN ac /\ ~ac[s].isGhost /\ gh[s] = g}) = 1

\* C11: when Duplicate is called on a pane whose store satisfies the ghost
\* invariants, the duplicate's store satisfies them: every ghost link of the
\* duplicate has an isGhost state in the duplicate's store, and every isGhost
\* state of the duplicate is the link of exactly one of its sources.
DuplicateKeepsGhostInvariants ==
    [][(DuplicateStep /\ GhostInvariants(aircraft, ghostAircraft))
            => GhostInvariants(dupe'.aircraft, dupe'.ghostAircraft)]_vars

\* C12: right after Duplicate, the duplicate holds for every aircraft the
\* original tracks a state with the original's isGhost, manual offset, automatic
\* offset and datablock text.
DuplicateCopiesEveryState ==
    [][DuplicateStep =>
        \A a \in DOMAIN aircraft :
            /\ a \in DOMAIN dupe'.aircraft
            /\ dupe'.aircraft[a].isGhost = aircraft[a].isGhost
            /\ dupe'.aircraft[a].datablockManualOffset = aircraft[a].datablockManualOffset
            /\ dupe'.aircraft[a].datablockAutomaticOffset
                    = aircraft[a].datablockAutomaticOffset
            /\ dupe'.aircraft[a].datablockText = aircraft[a].datablockText]_vars

\* the store, the ghost links, the warning pairs and the MIT airports of pane p
Owned(p) == [f \in MapFields |-> Pane(p)[f]]

\* C13: once Duplicate has been called, a step of the code of one pane (events,
\* a drag, a layout pass, a classification pass, an airport selection) leaves
\* the store, the ghost links, the warning pairs and the MIT airports of the
\* other pane as they were.
PanesShareNoState ==
    [][(dupe.made /\ dupe'.made) =>
        /\ lastPane' = "rs" => Owned("dupe")' = Owned("dupe")
        /\ lastPane' = "dupe" => Owned("rs")' = Owned("rs")]_vars

\* the two panes after each has gone its own way in each of the four
PanesHaveDiverged ==
    /\ dupe.made
    /\ dupe.shared = {}
    /\ DOMAIN aircraft # DOMAIN dupe.aircraft
    /\ 2 \in DOMAIN aircraft /\ 2 \in DOMAIN dupe.aircraft
    /\ aircraft[2] # dupe.aircraft[2]
    /\ DOMAIN ghostAircraft # DOMAIN dupe.ghostAircraft
    /\ rangeWarnings # dupe.rangeWarnings
    /\ AutoMITAirports # dupe.AutoMITAirports

(***************************************************************************)
(* Frames of one pane: the server adds, removes, modifies and points out   *)
(* aircraft 1 between the frames, and each frame is one Draw.              *)
(***************************************************************************)
FrameInit == DuplicateInit

FrameNext ==
    \/ ServerAddAircraft(1)
    \/ ServerRemoveAircraft(1)
    \/ \E g \in BOOLEAN : ServerModifyAircraft(1, g)
    \/ ServerPointOut(1)
    \/ \E drag \in DuplicateDrags : PaneDraw("rs", drag)

SpecFrame == FrameInit /\ [][FrameNext]_vars

\* C14: a Draw applies every pending event, in the order of delivery, before
\* its passes: the text update is given the store all the pending events have
\* produced, the layout and the range classification work on the aircraft of
\* that store, no event is left pending, and the aircraft, the ghost links and
\* the point-outs at the end of the frame are those the events produced.
EventsAreAppliedBeforeThePasses ==
    [][\A drag \in DuplicateDrags :
          PaneDraw("rs", drag) =>
              LET st == ApplyEvents(PaneStore, events, Len(events), CRDAEnabled, ghostable)
              IN  /\ events' = <<>>
                  /\ passes'.text = st.aircraft
                  /\ DOMAIN passes'.layout = DOMAIN st.aircraft
                  /\ DOMAIN passes'.range = DOMAIN st.aircraft
                  /\ DOMAIN aircraft' = DOMAIN st.aircraft
                  /\ ghostAircraft' = st.ghostAircraft
                  /\ pointedOutAircraft' = st.pointedOutAircraft]_vars

\* a frame that began with events pending has given its text update the state
\* an event made for aircraft 1, and its layout that state with its text
FrameAfterPendingEvents ==
    /\ lastPane = "rs"
    /\ events = <<>>
    /\ 1 \in DOMAIN passes.text
    /\ ~passes.text[1].datablockTextCurrent
    /\ passes.layout[1].datablockTextCurrent
    /\ pointedOutAircraft # {}

(***************************************************************************)
(* Claims about the pair set of the MIT suppression.                       *)
(***************************************************************************)
\* C16: after every frame, whatever the flags, the pair set drawMIT consults
\* holds exactly the pairs the classification of that frame put at Warning or
\* Violation, in both orders: no pair of an earlier frame is left in it.
PairSetIsOfThisFrame ==
    frame.drawn =>
        rangeWarnings = BothWayPairs(frame.warnings) \cup BothWayPairs(frame.violations)

(***************************************************************************)
(* Automatic layouts with the map iterated in every order: aircraft 1 is   *)
(* north-bound at a fixed place and alone may have a manual offset,        *)
(* aircraft 3 is north-east-bound, on or off the screen.                   *)
(***************************************************************************)
OrderInit ==
    /\ LayoutInit
    /\ AutomaticDatablockLayout
    /\ info[1].heading = 0
    /\ info[3].heading = 45
    /\ ~info[3].lostTrack /\ info[3].altitude <= MaxAltitude
    /\ \A a \in {2, 3} : ~HasManualOffset(aircraft[a])

OrderNext ==
    \E iteration \in IterationOrders(DOMAIN aircraft) : layoutDatablocksIterating(iteration)

SpecOrder == OrderInit /\ [][OrderNext]_vars

UnplacedBoxFollowsItsOffset ==
    placement.mode = "automatic" =>
        \A i \in DOMAIN placement.placed :
            ~placement.placed[i] =>
                placement.datablockBounds[i] =
                    Expand(WindowDatablockBounds(aircraft[placement.aircraft[i]],
                                                 info[placement.aircraft[i]].pw),
                           Px(DatablockPadding))

(***************************************************************************)
(* The attraction loop pass by pass: automatic layouts of the three        *)
(* aircraft, aircraft 1 north-bound, each pass of the loop a step.         *)
(***************************************************************************)
AttractInit ==
    /\ LayoutInit
    /\ AutomaticDatablockLayout
    /\ info[1].heading = 0

AttractNext ==
    \/ layoutUntilAttraction
    \/ attractionPass

SpecAttract == AttractInit /\ [][AttractNext]_vars

\* a pass of the attraction loop
AttractionStep == placement.mode = "attracting" /\ placement'.attractPasses = placement.attractPasses + 1

\* no other datablock overlaps datablock i
Clear(bounds, i) == \A j \in DOMAIN bounds : j = i \/ ~Overlaps(bounds[i], bounds[j])

\* what is left to go of the datablock at index i before the pass
GoBack(i) ==
    sub2f(offsetSelfOnly(info[placement.aircraft[i]], aircraft[placement.aircraft[i]],
                         RotationAngle),
          aircraft[placement.aircraft[i]].datablockAutomaticOffset)

\* the pass has left the datablock at index i and its state as they were
Kept(i) ==
    /\ placement'.datablockBounds[i] = placement.datablockBounds[i]
    /\ aircraft'[placement.aircraft[i]] = aircraft[placement.aircraft[i]]

\* the pass has moved the datablock at index i, box and automatic offset alike,
\* by the unit step towards its ideal offset, to where it overlaps no other
Stepped(i) ==
    /\ placement'.datablockBounds[i] =
           Offset(placement.datablockBounds[i], normalize2f(GoBack(i)))
    /\ aircraft'[placement.aircraft[i]] =
           [aircraft[placement.aircraft[i]] EXCEPT
               !.datablockAutomaticOffset = add2f(@, normalize2f(GoBack(i)))]
    /\ Clear(placement'.datablockBounds, i)

\* C19: in every pass of the attraction loop, a datablock moves only by the
\* unit step towards its ideal offset and only to where it overlaps no other
\* datablock, placed or not; an unplaced datablock that overlapped no other
\* before the pass overlaps none after it; no placed datablock moves, and none
\* within AttractMinLength of its ideal offset.
AttractionKeepsBoxesClear ==
    [][AttractionStep =>
          \A i \in DOMAIN placement.placed :
              /\ Kept(i) \/ Stepped(i)
              /\ placement.placed[i] => Kept(i)
              /\ length2f(GoBack(i)) < Px(AttractMinLength) => Kept(i)
              /\ (~placement.placed[i] /\ Clear(placement.datablockBounds, i))
                    => Clear(placement'.datablockBounds, i)]_vars

\* the attraction has moved datablocks, some datablock is clear of the others,
\* and the last pass has left one short of its ideal offset
AttractionMovedAndRefused ==
    /\ placement.mode = "automatic"
    /\ placement.attractPasses > 2
    /\ \E i \in DOMAIN placement.placed :
          ~placement.placed[i] /\ Clear(placement.datablockBounds, i)
    /\ \E i \in DOMAIN placement.placed :
          ~placement.placed[i] /\ length2f(GoBack(i)) >= Px(AttractMinLength)

(***************************************************************************)
(* Claims about the end of the layout.                                     *)
(***************************************************************************)
\* the square of what is left to go of the datablock at index i
SquareToGo(i) == GoBack(i)[1] * GoBack(i)[1] + GoBack(i)[2] * GoBack(i)[2]

\* the same after the pass, which leaves the ideal offset as it is
SquareLeft(i) ==
    LET v == sub2f(add2f(GoBack(i), aircraft[placement.aircraft[i]].datablockAutomaticOffset),
                   aircraft'[placement.aircraft[i]].datablockAutomaticOffset)
    IN  v[1] * v[1] + v[2] * v[2]

\* C15: an automatic layout pass ends: its relaxation has run RelaxIterations
\* iterations; every pass of the attraction loop leaves each datablock where it
\* was or nearer its ideal offset, a pass after which the loop goes on has
\* moved one nearer; and the loop never comes to its pass number
\* MaxAttractPasses: it has broken before.
LayoutTerminates ==
    /\ [](placement.mode \in {"attracting", "automatic"} =>
              /\ placement.relaxIterations = RelaxIterations
              /\ placement.attractPasses < MaxAttractPasses)
    /\ [][AttractionStep =>
              /\ \A i \in DOMAIN placement.placed :
                    \/ Kept(i)
                    \/ SquareLeft(i) < SquareToGo(i)
              /\ placement'.mode = "attracting" =>
                    \E i \in DOMAIN placement.placed : ~Kept(i)]_vars

\* an automatic layout whose attraction loop has moved datablocks and has
\* broken
AttractionHasMoved ==
    /\ placement.mode = "automatic"
    /\ placement.attractPasses > 2

(***************************************************************************)
(* The anchor of the datablock: one aircraft on every heading that is a    *)
(* multiple of 15 degrees, the scope rotated by the slider, and layouts    *)
(* with respect to its own track.                                          *)
(***************************************************************************)
AnchorHeadings == {15 * k : k \in 0..23}

\* "Rotation angle" goes from -90 to 90
AnchorRotations == {-90, -45, -15, 0, 15, 45, 90}

\* DrawUI: the "Rotation angle" slider
SetRotationAngle(r) ==
    /\ r # RotationAngle
    /\ RotationAngle' = r
    /\ UNCHANGED <<info, AutomaticDatablockLayout, placement, layoutRuns, storeVars,
                   rangeVars, dupeVars>>

AnchorInit ==
    /\ RangeIdle
    /\ DupeIdle
    /\ server = {1}
    /\ ghostable = {}
    /\ events = <<>>
    /\ CRDAEnabled = FALSE
    /\ ghostAircraft = EmptyMap
    /\ pointedOutAircraft = {}
    /\ removedInFrame = {}
    /\ \E h \in AnchorHeadings : info = [a \in {1} |-> Snapshot(FixedPosition, h, 5000, FALSE)]
    /\ aircraft = [a \in {1} |-> LaidOutState(<<0, 0>>)]
    /\ RotationAngle \in AnchorRotations
    /\ AutomaticDatablockLayout = FALSE
    /\ placement = NoPlacement
    /\ layoutRuns = 0

AnchorNext ==
    \/ layoutDatablocks
    \/ \E r \in AnchorRotations : SetRotationAngle(r)

SpecAnchor == AnchorInit /\ [][AnchorNext]_vars

\* the heading whose shifted angle is that of h wrapped into [0,360)
WrappedHeading(h) == ((h + 15) % 360) - 15

\* C20: the anchor depends on the shifted angle modulo 360 alone: the offset a
\* layout gives a datablock is the offset of the heading whose shifted angle is
\* the same angle wrapped into [0,360), so shifted angles 0 and 360 give the
\* same anchor point and the same corner flag.
AnchorDependsOnWrappedAngle ==
    [][LayoutStep =>
          \A a \in DOMAIN aircraft :
              /\ datablockConnectP(Expand(aircraft[a].datablockBounds, Px(DatablockPadding)),
                                   info[a].heading + RotationAngle)
                   = datablockConnectP(Expand(aircraft[a].datablockBounds,
                                              Px(DatablockPadding)),
                                       WrappedHeading(info[a].heading + RotationAngle))
              /\ aircraft'[a].datablockAutomaticOffset
                   = offsetSelfOnly([info[a] EXCEPT !.heading =
                                        WrappedHeading(info[a].heading + RotationAngle)],
                                    aircraft[a], 0)]_vars

(***************************************************************************)
(* The sectors of the anchor choice.                                       *)
(***************************************************************************)
\* the points of a box the anchor is chosen among; the y of p0 is that of one
\* horizontal edge and the y of p1 that of the other
LeftEdgeMidpoint(bbox) == <<bbox.p0[1], Center(bbox)[2]>>
LeftCorner(bbox, edge) == <<bbox.p0[1], IF edge = "p0" THEN bbox.p0[2] ELSE bbox.p1[2]>>
EdgeMidpoint(bbox, edge) == <<Center(bbox)[1], IF edge = "p0" THEN bbox.p0[2] ELSE bbox.p1[2]>>

\* the angle the sectors are cut from: heading plus rotation, shifted by 15
ShiftedAngle(a) == info[a].heading + RotationAngle + 15

\* the padded box of aircraft a
PaddedBox(a) == Expand(aircraft[a].datablockBounds, Px(DatablockPadding))

\* the offset that puts the point pt of the padded box at the track
OffsetOfAnchor(pt, isCorner) ==
    LET v == scale2f(pt, -1)
    IN  IF ~isCorner THEN add2f(v, scale2f(normalize2f(v), EdgeSlop)) ELSE v

\* the anchor of sectors 30, 60, 30, 90, 30, 60, 30, 60 degrees wide, with the
\* horizontal edge called bottom being the edge of bottom
AnchorAsClaimed(bbox, h, bottom) ==
    IF h < 30 THEN LeftEdgeMidpoint(bbox)
    ELSE IF h < 90 THEN LeftCorner(bbox, bottom)
    ELSE IF h < 120 THEN EdgeMidpoint(bbox, bottom)
    ELSE IF h < 210 THEN LeftCorner(bbox, bottom)
    ELSE IF h < 240 THEN LeftEdgeMidpoint(bbox)
    ELSE IF h < 300 THEN LeftCorner(bbox, bottom)
    ELSE IF h < 330 THEN EdgeMidpoint(bbox, bottom)
    ELSE LeftCorner(bbox, bottom)

\* the anchor of sectors 30, 60, 30, 60, 30, 60, 30, 60 degrees wide: the
\* midpoint of the left edge, the left corner on the edge of p1, the midpoint
\* of the edge of p1, the left corner on the edge of p0, the midpoint of the
\* left edge, the left corner on the edge of p1, the midpoint of the edge of
\* p0, the left corner on the edge of p0
AnchorOfSector(bbox, h) ==
    IF h < 30 THEN <<LeftEdgeMidpoint(bbox), FALSE>>
    ELSE IF h < 90 THEN <<LeftCorner(bbox, "p1"), TRUE>>
    ELSE IF h < 120 THEN <<EdgeMidpoint(bbox, "p1"), FALSE>>
    ELSE IF h < 180 THEN <<LeftCorner(bbox, "p0"), TRUE>>
    ELSE IF h < 210 THEN <<LeftEdgeMidpoint(bbox), FALSE>>
    ELSE IF h < 270 THEN <<LeftCorner(bbox, "p1"), TRUE>>
    ELSE IF h < 300 THEN <<EdgeMidpoint(bbox, "p0"), FALSE>>
    ELSE <<LeftCorner(bbox, "p0"), TRUE>>

Alone(a) == [x \in {a} |-> aircraft[x]]

\* C22: with the automatic layout disabled, after layoutDatablocks every
\* visible aircraft with a non-zero manual offset has the automatic offset
\* (0,0), and every other visible aircraft has the offset that puts the anchor
\* of its own heading, rotation and padded label bounds at its track: it is
\* the offset the layout gives it when the pane tracks no other aircraft.
SelfOnlyOffsetIsOfTheAircraftAlone ==
    [][(LayoutStep /\ ~AutomaticDatablockLayout) =>
          \A a \in DOMAIN aircraft :
              Visible(info[a]) =>
                  /\ HasManualOffset(aircraft[a]) =>
                        aircraft'[a].datablockAutomaticOffset = <<0, 0>>
                  /\ ~HasManualOffset(aircraft[a]) =>
                        aircraft'[a].datablockAutomaticOffset
                            = OffsetOfAnchor(
                                  datablockConnectP(PaddedBox(a),
                                                    info[a].heading + RotationAngle)[1],
                                  datablockConnectP(PaddedBox(a),
                                                    info[a].heading + RotationAngle)[2])
                  /\ aircraft'[a] = layoutSelfOnly(Alone(a), info, RotationAngle)[a]]_vars

\* a layout with respect to the own track of a pane that tracks a datablock
\* with a manual offset and two with none, on different headings
SelfOnlyAmongOthers ==
    /\ placement.mode = "self"
    /\ ~AutomaticDatablockLayout
    /\ \E a, b, c \in DOMAIN aircraft :
          /\ Visible(info[a]) /\ Visible(info[b]) /\ Visible(info[c])
          /\ HasManualOffset(aircraft[a])
          /\ aircraft[a].datablockAutomaticOffset = <<0, 0>>
          /\ ~HasManualOffset(aircraft[b]) /\ ~HasManualOffset(aircraft[c])
          /\ info[b].heading # info[c].heading
          /\ aircraft[b].datablockAutomaticOffset # aircraft[c].datablockAutomaticOffset
          /\ aircraft[b].datablockAutomaticOffset
                = offsetSelfOnly(info[b], aircraft[b], RotationAngle)

(***************************************************************************)
(* Delivery: processEvents with the events of the stream as its input.     *)
(* The code that posts the events is not part of the pane, so the stream   *)
(* hands over any event for any aircraft, in any order.                    *)
(***************************************************************************)
EventTypes == {"Added", "Removed", "Modified", "PointOut"}

\* es.Get hands over one more event
PostEvent(ev) ==
    /\ CanPost
    /\ Post(ev)
    /\ UNCHANGED <<server, ghostable, CRDAEnabled, aircraft, ghostAircraft,
                   pointedOutAircraft, removedInFrame, layoutVars, rangeVars, lastPane,
                   passes>>

DeliveryInit == StoreInit

DeliveryNext ==
    \/ \E t \in EventTypes, a \in StoreAircraft : PostEvent(Event(t, a))
    \/ processEvents

SpecDelivery == DeliveryInit /\ [][DeliveryNext]_vars

\* no event among evs[i+1..j] adds aircraft a
NotAddedSince(evs, a, i, j) ==
    \A k \in (i + 1)..j : ~(evs[k].type = "Added" /\ evs[k].ac = a)

\* C23: the state of a real aircraft is destroyed by a remove event and comes
\* back only with an add event: after processEvents has applied a remove event
\* for an aircraft, and until it applies the next add event for it, the store
\* holds no state for the aircraft, whatever modify and point-out events it
\* applies in between.
RemovedUntilAdded ==
    [][processEvents =>
          \A i \in 1..Len(events) :
              events[i].type = "Removed" =>
                  \A j \in i..Len(events) :
                      NotAddedSince(events, events[i].ac, i, j) =>
                          /\ events[i].ac \notin
                                DOMAIN ApplyEvents(PaneStore, events, j, CRDAEnabled,
                                                   ghostable).aircraft
                          /\ j = Len(events) => events[i].ac \notin DOMAIN aircraft']_vars

(***************************************************************************)
(* The aircraft the range classification leaves out.                       *)
(***************************************************************************)
\* aircraft 3 a unit less than 3 nm ahead of aircraft 1 at its altitude, on
\* the scope, with its track lost, or above the altitude band
LostOfOne == Traffic(Nm(7) + 1, 3000, 270, "KAAA", "IFR", TRUE)
AboveOfOne == Traffic(Nm(7) + 1, MaxAltitude + 100, 270, "KAAA", "IFR", FALSE)

FilterSnapshots ==
    {RangeSnapshot(ClearOfOne, ViolationOfOne), RangeSnapshot(ClearOfOne, LostOfOne),
     RangeSnapshot(ClearOfOne, AboveOfOne), RangeSnapshot(WarningOfOne, LostOfOne)}

FilterInit ==
    /\ RangeStore
    /\ info \in FilterSnapshots
    /\ clock = 0
    /\ DrawRangeIndicators = TRUE
    /\ rangeWarnings = {}
    /\ lastRangeNotificationPlayed = ZeroTime
    /\ AutoMIT = TRUE
    /\ AutoMITAirports = {"KAAA"}
    /\ mit = <<>>
    /\ frame = NoFrame
    /\ alerts = <<>>

FilterNext ==
    \/ drawRangeAndMIT
    \/ Tick
    \/ SetDrawRangeIndicators
    \/ \E inf \in FilterSnapshots : UpdateTraffic(inf)

SpecFilter == FilterInit /\ [][FilterNext]_vars

\* the aircraft of a pair
PairMembers(p) == {p[1], p[2]}

\* the tracked aircraft the filter of drawRangeIndicators turns away: ghosts,
\* lost tracks and altitudes outside the band
FilteredOut == {a \in DOMAIN aircraft : ~RangeFilter(aircraft[a], info[a])}

\* C24: the frame's classification is over the non-ghost aircraft that have
\* not lost track and fly within [MinAltitude, MaxAltitude]: no other aircraft
\* is in a pair of the frame's warnings or violations or in a pair of the
\* suppression set the frame leaves, and an alert only fires for a violation
\* between two aircraft that pass the filter.
RangeLeavesOutFilteredAircraft ==
    frame.drawn =>
        /\ \A k \in 1..Len(frame.warnings) :
              PairMembers(frame.warnings[k].aircraft) \cap FilteredOut = {}
        /\ \A k \in 1..Len(frame.violations) :
              PairMembers(frame.violations[k].aircraft) \cap FilteredOut = {}
        /\ \A p \in rangeWarnings : PairMembers(p) \cap FilteredOut = {}
        /\ frame.alerts = 1 =>
              \E k \in 1..Len(frame.violations) :
                  PairMembers(frame.violations[k].aircraft) \cap FilteredOut = {}

(***************************************************************************)
(* The two offsets of a datablock: a pane whose aircraft come and go, that *)
(* is laid out in either mode with datablocks dragged in its frames, that  *)
(* is initialized anew and that is duplicated.                             *)
(***************************************************************************)
\* the pane tracks aircraft 1 and 2, whose datablocks overlap, and no ghost;
\* aircraft 1 has an offset a layout or a drag has left
OffsetsInit ==
    /\ server = StoreAircraft
    /\ ghostable = {}
    /\ events = <<>>
    /\ CRDAEnabled = FALSE
    /\ pointedOutAircraft = {}
    /\ removedInFrame = {}
    /\ \E mo \in DuplicateOffsets :
          aircraft = DuplicateStore(
                        initializeAircraftStore({}, server, CRDAEnabled, ghostable).aircraft,
                        mo[1], mo[2])
    /\ ghostAircraft = EmptyMap
    /\ info = DuplicateSnapshot
    /\ RotationAngle = 0
    /\ AutomaticDatablockLayout = FALSE
    /\ placement = NoPlacement
    /\ layoutRuns = 0
    /\ RangeIdle
    /\ DupeIdle

\* a frame of pane p, counted as the layout pass it runs
CountedDraw(p, drag) ==
    /\ layoutRuns < MaxFrames
    /\ layoutRuns' = layoutRuns + 1
    /\ PaneFrame(p, drag, Draw(Pane(p), drag))
    /\ UNCHANGED <<info, RotationAngle, AutomaticDatablockLayout, placement>>

OffsetsNext ==
    \/ ServerAddAircraft(1)
    \/ ServerRemoveAircraft(1)
    \/ \E drag \in DuplicateDrags : CountedDraw("rs", drag)
    \/ CountedDraw("dupe", NoDrag)
    \/ SetAutomaticDatablockLayout
    \/ initializeAircraft
    \/ DuplicatePane

SpecOffsets == OffsetsInit /\ [][OffsetsNext]_vars

NonZero(v) == v[1] # 0 \/ v[2] # 0

\* C25: in every state that events, layout passes in either mode, drags of
\* datablocks, initializeAircraft and Duplicate lead to, no state of an
\* aircraft, in the pane or in its duplicate, has both a non-zero manual
\* offset and a non-zero automatic offset.
OffsetsAreExclusive ==
    /\ \A a \in DOMAIN aircraft :
          ~(NonZero(aircraft[a].datablockManualOffset)
            /\ NonZero(aircraft[a].datablockAutomaticOffset))
    /\ \A a \in DOMAIN dupe.aircraft :
          ~(NonZero(dupe.aircraft[a].datablockManualOffset)
            /\ NonZero(dupe.aircraft[a].datablockAutomaticOffset))

\* in automatic mode, a datablock that a layout had given an automatic offset
\* has been dragged, next to one a layout has placed, in a pane that has been
\* duplicated
DraggedAfterAutomaticLayout ==
    /\ AutomaticDatablockLayout
    /\ dupe.made
    /\ \E a, b \in DOMAIN aircraft :
          /\ ~aircraft[a].isGhost /\ ~aircraft[b].isGhost
          /\ NonZero(aircraft[a].datablockManualOffset)
          /\ aircraft[a].datablockManualOffset # <<Px(10), Px(10)>>
          /\ aircraft[a].datablockAutomaticOffset = <<0, 0>>
          /\ ~NonZero(aircraft[b].datablockManualOffset)
          /\ NonZero(aircraft[b].datablockAutomaticOffset)

(***************************************************************************)
(* The drag of a datablock.                                                *)
(***************************************************************************)
\* the offset WindowDatablockBounds translates the datablock by
EffectiveOffset(state) ==
    IF HasManualOffset(state) THEN state.datablockManualOffset
    ELSE state.datablockAutomaticOffset

\* C26: the drag of a frame moves the datablock of the selected aircraft by
\* the drag delta: the offset WindowDatablockBounds uses after
\* consumeMouseEvents (the manual offset if it is non-zero, else the automatic
\* one) is the offset it used before, in the store the layout of the frame
\* left, plus the delta, and the offsets of every other aircraft are as the
\* layout left them.
DragMovesByDelta ==
    [][\A drag \in DuplicateDrags :
          (drag.ac # Nil /\ CountedDraw("rs", drag)) =>
              /\ EffectiveOffset(aircraft'[drag.ac])
                    = add2f(EffectiveOffset(passes'.range[drag.ac]), drag.delta)
              /\ \A b \in DOMAIN aircraft' \ {drag.ac} :
                    /\ aircraft'[b].datablockManualOffset
                          = passes'.range[b].datablockManualOffset
                    /\ aircraft'[b].datablockAutomaticOffset
                          = passes'.range[b].datablockAutomaticOffset]_vars

\* a frame has dragged a datablock that the layout had given a non-zero
\* automatic offset and no manual one
DraggedFromAutomaticOffset ==
    /\ lastPane = "rs"
    /\ \E a \in DOMAIN aircraft \cap DOMAIN passes.range :
          /\ ~HasManualOffset(passes.range[a])
          /\ NonZero(passes.range[a].datablockAutomaticOffset)
          /\ aircraft[a].datablockManualOffset
                = add2f(passes.range[a].datablockAutomaticOffset, <<Px(5), Px(5)>>)
          /\ aircraft[a].datablockAutomaticOffset = <<0, 0>>

(***************************************************************************)
(* The aircraft a layout leaves out.                                       *)
(***************************************************************************)
\* the track is more than the margin outside the pane
FarOutside(pw) ==
    \/ pw[1] < Px(-OnScreenMargin) \/ pw[1] > Px(PaneWidth + OnScreenMargin)
    \/ pw[2] < Px(-OnScreenMargin) \/ pw[2] > Px(PaneHeight + OnScreenMargin)

\* the tracked aircraft that have lost track or fly outside the altitude band
\* and, in automatic mode, those whose track is far outside the pane
LeftOut ==
    {a \in DOMAIN aircraft :
        \/ info[a].lostTrack
        \/ info[a].altitude < MinAltitude
        \/ info[a].altitude > MaxAltitude
        \/ AutomaticDatablockLayout /\ FarOutside(info[a].pw)}

\* the store without the aircraft in S
Without(S) == [a \in DOMAIN aircraft \ S |-> aircraft[a]]

\* C27: layoutDatablocks leaves the manual and the automatic offset of every
\* tracked aircraft that has lost track or flies outside [MinAltitude,
\* MaxAltitude] as they are and, in automatic mode, those of every aircraft
\* whose track is more than 100 units outside the pane; such an aircraft is
\* not among the aircraft the pass places, and the other aircraft are laid out
\* as they are when the pane does not track it.
LayoutLeavesOutFilteredAircraft ==
    [][LayoutStep =>
          /\ \A a \in LeftOut :
                /\ aircraft'[a].datablockManualOffset = aircraft[a].datablockManualOffset
                /\ aircraft'[a].datablockAutomaticOffset
                      = aircraft[a].datablockAutomaticOffset
                /\ \A i \in DOMAIN placement'.aircraft : placement'.aircraft[i] # a
          /\ LeftOut # {} =>
                \A b \in DOMAIN aircraft \ LeftOut :
                    aircraft'[b]
                        = (IF AutomaticDatablockLayout
                           THEN layoutAutomatic(Without(LeftOut), info, RotationAngle).ac
                           ELSE layoutSelfOnly(Without(LeftOut), info, RotationAngle))[b]]_vars

\* an automatic pass has left out an aircraft far outside the pane, whose
\* datablock keeps the offset an earlier layout with respect to its own track
\* gave it, and has placed the others
OffScreenKeptItsOffset ==
    /\ placement.mode = "automatic"
    /\ Len(placement.aircraft) >= 2
    /\ \E a \in DOMAIN aircraft :
          /\ FarOutside(info[a].pw)
          /\ Visible(info[a])
          /\ \A i \in DOMAIN placement.aircraft : placement.aircraft[i] # a
          /\ NonZero(aircraft[a].datablockAutomaticOffset)

====
